---- MODULE Spec2Model ----
(***************************************************************************)
(* Resilience and dispatch layer of kerygma_social: the circuit breaker    *)
(* (circuit_breaker.py), the retry policy (retry.py), the token bucket     *)
(* (rate_limiter.py), the delivery log (delivery_log.py), the POSSE        *)
(* distributor that composes them (posse.py), the feed poller              *)
(* (rss_poller.py) and the dispatch command (cli.py, factory.py).          *)
(*                                                                         *)
(* Time is an integer clock `now`.  The specifications share the           *)
(* variables: SpecCB and SpecCBConc (one breaker, calls one after the      *)
(* other and overlapping; FairSpecCBConc adds the callers' scheduling),    *)
(* SpecRetry (one retry call), SpecRL and SpecRLConc (one limiter),        *)
(* SpecLog and SpecLogConc (one backing file, one writer and two), Spec    *)
(* (the distributor), SpecPoll (the pollers of one seen-file) and SpecCli  *)
(* (two runs of the dispatch command over one delivery log).               *)
(***************************************************************************)
EXTENDS Integers, Sequences, FiniteSets, TLC

VARIABLES
    now,        \* value returned by the injected clock
    cbcfg,      \* CircuitBreakerConfig of the breaker(s)
    cb,         \* the breaker of SpecCB / SpecCBConc
    last,       \* SpecCB: what the last operation on the breaker did
    streak,     \* SpecCB: failing calls since the breaker was CLOSED with counter 0
    thr,        \* SpecCBConc: position and locals of each overlapping call
    episode,    \* SpecCBConc: operations invoked in the current HALF_OPEN episode
    cfg,        \* Spec: how the PosseDistributor was constructed
    posts,      \* Spec: PosseDistributor._posts
    ledger,     \* Spec: DeliveryLog._records
    breakers,   \* Spec: PosseDistributor._circuit_breakers
    limiter,    \* Spec: RateLimiter._tokens and _last_refill
    pc,         \* Spec: position of the running syndicate call
    cur,        \* Spec: locals of the running syndicate call
    calls,      \* Spec: collaborator invocations per platform in this syndicate call
    trace,      \* Spec: events of the current dispatch, in order
    raised,     \* Spec: error that escaped the last syndicate call
    snap,       \* Spec: length of the ledger when the syndicate call started
    nsyn,       \* Spec: number of syndicate calls started
    oks,        \* Spec: successful returns of each collaborator per post so far
    rt,         \* SpecRetry: the RetryConfig and the locals of one retry() call
    lcfg,       \* SpecRL / SpecRLConc: RateLimiterConfig of the limiter
    lhist,      \* SpecRL / SpecRLConc: what the acquires on the limiter did
    lthr,       \* SpecRLConc: position and locals of each overlapping acquire
    bucket,     \* SpecRL / SpecRLConc: RateLimiter._tokens and _last_refill
    dl,         \* SpecLog / SpecLogConc / SpecCli: the DeliveryLog object(s) and what they did last
    fs,         \* SpecLog / SpecLogConc / SpecCli: the backing file and its .tmp sibling
    rss         \* SpecPoll: the feed, the seen-file and the RssPoller objects

cbvars == <<cb, last, streak, thr, episode>>
possevars == <<cfg, posts, ledger, breakers, limiter, pc, cur, calls, trace, raised, snap, nsyn, oks>>
lvars == <<lcfg, lhist, lthr, bucket>>
compvars == <<rt, lcfg, lhist, lthr, bucket>>
logvars == <<dl, fs>>
vars == <<now, cbcfg, cb, last, streak, thr, episode, cfg, posts, ledger, breakers,
          limiter, pc, cur, calls, trace, raised, snap, nsyn, oks, rt,
          lcfg, lhist, lthr, bucket, dl, fs,
          rss>>

----------------------------------------------------------------------------
(* Bounds *)

MaxTime == 4
MaxThreshold == 2
MaxResetTimeout == 2
MaxHalfOpen == 2
NumCallers == 2
MaxTargets == 2
MaxSyndicates == 2

----------------------------------------------------------------------------
(* circuit_breaker.py *)

CircuitState == {"closed", "open", "half_open"}

\* CircuitBreaker.__init__
NewBreaker == [state |-> "closed", failure_count |-> 0,
               last_failure_time |-> 0, half_open_calls |-> 0]

CBConfigs == [failure_threshold : 1..MaxThreshold,
              reset_timeout : 1..MaxResetTimeout,
              half_open_max_calls : 0..MaxHalfOpen]

\* The OPEN -> HALF_OPEN test of the state property
ResetElapsed(b, c, t) == t - b.last_failure_time >= c.reset_timeout

\* StateProp that keeps the trial counter of the previous episode
StateProp_KeepTrials(b, c, t) ==
    IF b.state = "open" /\ ResetElapsed(b, c, t)
    THEN [b EXCEPT !.state = "half_open"]
    ELSE b

\* CircuitBreaker.state: the breaker after the property was read at time t
StateProp(b, c, t) ==
    IF b.state = "open" /\ ResetElapsed(b, c, t)
    THEN [b EXCEPT !.state = "half_open", !.half_open_calls = 0]
    ELSE b

\* reset_at carried by CircuitOpenError
ResetAt(b, c) == b.last_failure_time + c.reset_timeout

\* Rejects that lets calls through while the breaker is OPEN
Rejects_TrialsOnly(b, c) ==
    b.state = "half_open" /\ b.half_open_calls >= c.half_open_max_calls

\* CircuitBreaker.call up to the invocation of func: TRUE when the call is
\* rejected with CircuitOpenError (b is the breaker after the state read)
Rejects(b, c) ==
    \/ b.state = "open"
    \/ b.state = "half_open" /\ b.half_open_calls >= c.half_open_max_calls

\* the trial counter update of an admitted call
Admit(b) ==
    IF b.state = "half_open"
    THEN [b EXCEPT !.half_open_calls = b.half_open_calls + 1]
    ELSE b

\* OnSuccess that zeroes the failure counter only when it closes a trial
OnSuccess_OnlyHalfOpen(b) ==
    IF b.state = "half_open"
    THEN [b EXCEPT !.state = "closed", !.failure_count = 0]
    ELSE b

\* OnSuccess that leaves the failure counter alone
OnSuccess_KeepCount(b) ==
    [b EXCEPT !.state = IF b.state = "half_open" THEN "closed" ELSE b.state]

\* CircuitBreaker._on_success
OnSuccess(b) ==
    [b EXCEPT !.state = IF b.state = "half_open" THEN "closed" ELSE b.state,
              !.failure_count = 0]

\* OnFailure that opens only above the threshold
OnFailure_Above(b, c, t) ==
    [b EXCEPT !.failure_count = b.failure_count + 1,
              !.last_failure_time = t,
              !.state = IF b.failure_count + 1 > c.failure_threshold
                        THEN "open" ELSE b.state]

\* OnFailure that stamps the failure time only when it opens from CLOSED
OnFailure_NoRestamp(b, c, t) ==
    [b EXCEPT !.failure_count = b.failure_count + 1,
              !.last_failure_time = IF b.state = "closed" THEN t ELSE b.last_failure_time,
              !.state = IF b.failure_count + 1 >= c.failure_threshold
                        THEN "open" ELSE b.state]

\* CircuitBreaker._on_failure at time t
OnFailure(b, c, t) ==
    [b EXCEPT !.failure_count = b.failure_count + 1,
              !.last_failure_time = t,
              !.state = IF b.failure_count + 1 >= c.failure_threshold
                        THEN "open" ELSE b.state]

\* ResetBreaker that leaves the trial counter alone
ResetBreaker_KeepTrials(b) ==
    [b EXCEPT !.state = "closed", !.failure_count = 0]

\* CircuitBreaker.reset
ResetBreaker(b) ==
    [b EXCEPT !.state = "closed", !.failure_count = 0, !.half_open_calls = 0]

\* CircuitBreaker.call with a func that returns (res = "ok") or raises
\* (res = "err"), as one step: the breaker afterwards
CallBreaker(b, c, t, res) ==
    LET b1 == StateProp(b, c, t) IN
    IF Rejects(b1, c) THEN b1
    ELSE IF res = "ok" THEN OnSuccess(Admit(b1))
    ELSE OnFailure(Admit(b1), c, t)

----------------------------------------------------------------------------
(* SpecCB: one breaker, one call at a time *)

NoOp == [op |-> "none", res |-> "none", outcome |-> "none", invoked |-> FALSE,
         reset_at |-> 0, pre |-> NewBreaker, seen |-> "closed", at |-> 0]

\* locals of a syndicate call before any was made
NoCall == [post_id |-> "none", platforms |-> <<>>, idx |-> 0, records |-> <<>>,
           attempt |-> 0, wait |-> 0, pre |-> NewBreaker, at |-> 0, out |-> "none"]

\* the distributor's variables in the specifications that do not use it
IdlePosse ==
    /\ cfg = [ledger |-> "none", retry |-> FALSE, max_attempts |-> 0, clients |-> {},
              breakers |-> {}, limiter |-> FALSE]
    /\ posts = <<>>
    /\ ledger = <<>>
    /\ breakers = <<>>
    /\ limiter = [tokens |-> 0, last_refill |-> 0]
    /\ pc = "idle"
    /\ cur = NoCall
    /\ calls = <<>>
    /\ trace = <<>>
    /\ raised = "none"
    /\ snap = 0
    /\ nsyn = 0
    /\ oks = <<>>

\* the variables of the retry and limiter specifications where they are not used
IdleLimiter ==
    /\ lcfg = <<>>
    /\ lhist = <<>>
    /\ lthr = <<>>
    /\ bucket = <<>>

IdlePoller == rss = <<>>

IdleLog ==
    /\ dl = <<>>
    /\ fs = <<>>

IdleComp ==
    /\ rt = <<>>
    /\ IdleLimiter

InitCB ==
    /\ IdlePoller
    /\ IdleLog
    /\ now = 0
    /\ cbcfg \in CBConfigs
    /\ cb = NewBreaker
    /\ last = NoOp
    /\ streak = 0
    /\ thr = <<>>
    /\ episode = 0
    /\ IdlePosse
    /\ IdleComp

\* cb.call(func) where func returns or raises as res says
Call(res) ==
    LET b1 == StateProp(cb, cbcfg, now)
        rej == Rejects(b1, cbcfg) IN
    /\ cb' = CallBreaker(cb, cbcfg, now, res)
    /\ last' = [op |-> "call", res |-> res,
                outcome |-> IF rej THEN "CircuitOpenError" ELSE res,
                invoked |-> ~rej,
                reset_at |-> IF rej THEN ResetAt(b1, cbcfg) ELSE 0,
                pre |-> cb, seen |-> b1.state, at |-> now]
    /\ streak' = IF rej THEN streak ELSE IF res = "ok" THEN 0 ELSE streak + 1
    /\ UNCHANGED <<now, cbcfg, thr, episode>>
    /\ UNCHANGED possevars
    /\ UNCHANGED compvars
    /\ UNCHANGED logvars
    /\ UNCHANGED rss

\* a read of cb.state
ReadState ==
    /\ cb' = StateProp(cb, cbcfg, now)
    /\ last' = [NoOp EXCEPT !.op = "state", !.pre = cb,
                            !.seen = StateProp(cb, cbcfg, now).state, !.at = now]
    /\ UNCHANGED <<now, cbcfg, streak, thr, episode>>
    /\ UNCHANGED possevars
    /\ UNCHANGED compvars
    /\ UNCHANGED logvars
    /\ UNCHANGED rss

\* cb.reset()
Reset ==
    /\ cb' = ResetBreaker(cb)
    /\ last' = [NoOp EXCEPT !.op = "reset", !.pre = cb, !.seen = cb.state, !.at = now]
    /\ streak' = 0
    /\ UNCHANGED <<now, cbcfg, thr, episode>>
    /\ UNCHANGED possevars
    /\ UNCHANGED compvars
    /\ UNCHANGED logvars
    /\ UNCHANGED rss

\* the clock advances
TickCB ==
    /\ now < MaxTime
    /\ now' = now + 1
    /\ last' = [NoOp EXCEPT !.op = "tick", !.pre = cb, !.seen = cb.state, !.at = now]
    /\ UNCHANGED <<cbcfg, cb, streak, thr, episode>>
    /\ UNCHANGED possevars
    /\ UNCHANGED compvars
    /\ UNCHANGED logvars
    /\ UNCHANGED rss

NextCB ==
    \/ Call("ok")
    \/ Call("err")
    \/ ReadState
    \/ Reset
    \/ TickCB

SpecCB == InitCB /\ [][NextCB]_vars

\* the last operation was a call that found the breaker OPEN before the
\* reset timeout had elapsed
LastCallInWindow ==
    /\ last.op = "call"
    /\ last.pre.state = "open"
    /\ last.at - last.pre.last_failure_time < cbcfg.reset_timeout

\* the last operation was a call or state read that found the breaker OPEN
\* with the reset timeout elapsed
LastAfterTimeout ==
    /\ last.op \in {"call", "state"}
    /\ last.pre.state = "open"
    /\ last.at - last.pre.last_failure_time >= cbcfg.reset_timeout

\* the last operation was a call admitted as a HALF_OPEN trial
LastTrial == last.op = "call" /\ last.seen = "half_open" /\ last.invoked

\* C6: from CLOSED with counter 0, each of the first k = failure_threshold
\* failing calls invokes the operation and propagates its error; the breaker
\* is CLOSED after fewer than k of them and OPEN after the k-th; a further
\* call before the reset timeout has elapsed raises CircuitOpenError and
\* does not invoke the operation.
C6_OpensAtThreshold ==
    /\ streak < cbcfg.failure_threshold =>
            cb.state = "closed" /\ cb.failure_count = streak
    /\ (last.op = "call" /\ last.pre.state = "closed") =>
            last.invoked /\ last.outcome = last.res
    /\ (last.op = "call" /\ last.invoked /\ last.res = "err"
            /\ streak = cbcfg.failure_threshold) => cb.state = "open"
    /\ streak >= cbcfg.failure_threshold => cb.state # "closed"
    /\ LastCallInWindow => last.outcome = "CircuitOpenError" /\ ~last.invoked

C6_Witness ==
    /\ cbcfg.failure_threshold = MaxThreshold
    /\ streak = cbcfg.failure_threshold
    /\ LastCallInWindow
    /\ last.outcome = "CircuitOpenError"

\* the parts of C7 that do not depend on half_open_max_calls
C7_Common ==
    /\ LastCallInWindow =>
            /\ last.outcome = "CircuitOpenError"
            /\ last.reset_at = last.pre.last_failure_time + cbcfg.reset_timeout
            /\ ~last.invoked
            /\ cb = last.pre
    /\ LastAfterTimeout => last.seen = "half_open"
    /\ (LastAfterTimeout /\ last.op = "state") =>
            cb.state = "half_open" /\ cb.half_open_calls = 0
    /\ (last.pre.state = "open" /\ last.seen = "half_open") =>
            last.at - last.pre.last_failure_time >= cbcfg.reset_timeout

\* C7 (as stated): an OPEN breaker rejects every call before the reset timeout
\* with reset_at = failure time + reset_timeout and stays as it was; once the
\* timeout has elapsed the next state read or call moves it to HALF_OPEN with
\* trial counter 0 and that call is serviced as a trial; it never becomes
\* HALF_OPEN earlier.
C7_Original ==
    /\ C7_Common
    /\ (LastAfterTimeout /\ last.op = "call") => last.invoked

\* C7 (amended): as C7, but the call that finds the timeout elapsed is
\* serviced as a trial only when half_open_max_calls >= 1; with
\* half_open_max_calls = 0 it moves the breaker to HALF_OPEN and is rejected
\* with CircuitOpenError.
C7_OpenWindow ==
    /\ C7_Common
    /\ (LastAfterTimeout /\ last.op = "call") =>
            IF cbcfg.half_open_max_calls >= 1
            THEN last.invoked
            ELSE /\ ~last.invoked
                 /\ last.outcome = "CircuitOpenError"
                 /\ cb.state = "half_open"

\* a second HALF_OPEN episode: the call found the timeout elapsed with a
\* trial counter left over from an earlier episode, and was serviced
C7_Witness ==
    /\ LastAfterTimeout
    /\ last.op = "call"
    /\ last.pre.half_open_calls >= 1
    /\ last.invoked

\* C8: a successful HALF_OPEN trial leaves the breaker CLOSED with failure
\* counter 0, and from there it stays CLOSED until failure_threshold
\* failures in a row have happened.
C8_TrialSuccessCloses ==
    /\ (LastTrial /\ last.res = "ok") =>
            cb.state = "closed" /\ cb.failure_count = 0 /\ streak = 0
    /\ (cb.state = "closed" /\ last.op = "call" /\ last.invoked /\ last.res = "err") =>
            cb.failure_count = streak /\ streak < cbcfg.failure_threshold

C8_Witness ==
    /\ LastTrial
    /\ last.res = "ok"
    /\ last.pre.failure_count >= cbcfg.failure_threshold
    /\ cb.state = "closed"

\* C9: a failed HALF_OPEN trial leaves the breaker OPEN with the failure
\* time set to the time of that failure, so that calls are rejected until
\* reset_timeout has elapsed from then.
C9_TrialFailureReopens ==
    (LastTrial /\ last.res = "err") =>
        /\ cb.state = "open"
        /\ cb.last_failure_time = last.at
        /\ \A t \in last.at..(last.at + cbcfg.reset_timeout - 1) :
               Rejects(StateProp(cb, cbcfg, t), cbcfg)

C9_Witness ==
    /\ LastTrial
    /\ last.res = "err"
    /\ cb.state = "open"
    /\ last.at > last.pre.last_failure_time

\* C11: reset() called in any state and at any time leaves the breaker
\* CLOSED with failure counter 0 and trial counter 0, so that a call made
\* after it, whatever time has elapsed, is passed to the operation.
C11_ResetCloses ==
    /\ last.op = "reset" =>
            /\ cb.state = "closed"
            /\ cb.failure_count = 0
            /\ cb.half_open_calls = 0
            /\ \A t \in now..(MaxTime + MaxResetTimeout) :
                   ~Rejects(StateProp(cb, cbcfg, t), cbcfg)
    /\ (last.op = "call" /\ last.pre.state = "closed"
            /\ last.pre.failure_count = 0 /\ last.pre.half_open_calls = 0) =>
            last.invoked /\ last.outcome = last.res

\* reset() of a breaker that a failed trial had reopened, before the reset
\* timeout has elapsed from that failure
C11_Witness ==
    /\ last.op = "reset"
    /\ last.pre.state = "open"
    /\ last.pre.half_open_calls >= 1
    /\ last.pre.failure_count > cbcfg.failure_threshold
    /\ last.at - last.pre.last_failure_time < cbcfg.reset_timeout
    /\ cb.state = "closed"

\* C12: in CLOSED a successful call sets the failure counter to 0 and leaves
\* the state CLOSED; the breaker leaves CLOSED only on the failing call that
\* completes failure_threshold failures with no success in between, so with
\* fewer failures than that since the last success it is CLOSED.
C12_SuccessResetsCount ==
    /\ (last.op = "call" /\ last.pre.state = "closed" /\ last.res = "ok") =>
            cb.state = "closed" /\ cb.failure_count = 0
    /\ cb.state = "closed" => cb.failure_count = streak
    /\ streak < cbcfg.failure_threshold => cb.state = "closed"
    /\ (last.pre.state = "closed" /\ cb.state # "closed") =>
            /\ last.op = "call" /\ last.res = "err"
            /\ cb.state = "open"
            /\ streak = cbcfg.failure_threshold

\* a success in CLOSED that clears a counter one short of the threshold
C12_Witness ==
    /\ last.op = "call" /\ last.res = "ok"
    /\ last.pre.state = "closed"
    /\ last.pre.failure_count = cbcfg.failure_threshold - 1
    /\ last.pre.failure_count >= 1
    /\ cb.state = "closed" /\ cb.failure_count = 0

----------------------------------------------------------------------------
(* SpecCBConc: one breaker shared by callers whose calls overlap in time.   *)
(* CircuitBreaker holds no lock, so a call is a sequence of separate steps: *)
(* the state read (line 71), the trial-counter test (line 79), the          *)
(* trial-counter increment (line 83), the invocation of func (line 86) and  *)
(* the bookkeeping of its result (lines 87 and 90).                         *)

Callers == 1..NumCallers

IdleCaller == [pc |-> "idle", seen |-> "closed", outcome |-> "none"]

InitCBConc ==
    /\ IdlePoller
    /\ IdleLog
    /\ now = 0
    /\ cbcfg \in CBConfigs
    /\ cb = NewBreaker
    /\ last = NoOp
    /\ streak = 0
    /\ thr = [t \in Callers |-> IdleCaller]
    /\ episode = 0
    /\ IdlePosse
    /\ IdleComp

\* the count of operations invoked by trials starts again whenever the
\* breaker's state changes
EpisodeAfter(b2) == IF b2.state # cb.state THEN 0 ELSE episode

\* line 71: current_state = self.state; lines 73-76: reject when OPEN
CallRead(t) ==
    LET b1 == StateProp(cb, cbcfg, now) IN
    /\ thr[t].pc = "idle"
    /\ cb' = b1
    /\ thr' = [thr EXCEPT ![t] =
                   [pc |-> IF b1.state = "open" THEN "idle"
                           ELSE IF b1.state = "half_open" THEN "test"
                           ELSE "invoke",
                    seen |-> b1.state,
                    outcome |-> IF b1.state = "open" THEN "CircuitOpenError" ELSE "none"]]
    /\ episode' = EpisodeAfter(b1)
    /\ UNCHANGED <<now, cbcfg, last, streak>>
    /\ UNCHANGED possevars
    /\ UNCHANGED compvars
    /\ UNCHANGED logvars
    /\ UNCHANGED rss

\* lines 79-82: the test of the trial counter
CallTest(t) ==
    /\ thr[t].pc = "test"
    /\ thr' = [thr EXCEPT ![t] =
                   IF cb.half_open_calls >= cbcfg.half_open_max_calls
                   THEN [thr[t] EXCEPT !.pc = "idle", !.outcome = "CircuitOpenError"]
                   ELSE [thr[t] EXCEPT !.pc = "count"]]
    /\ UNCHANGED <<now, cbcfg, cb, last, streak, episode>>
    /\ UNCHANGED possevars
    /\ UNCHANGED compvars
    /\ UNCHANGED logvars
    /\ UNCHANGED rss

\* line 83: self._half_open_calls += 1
CallCount(t) ==
    /\ thr[t].pc = "count"
    /\ cb' = [cb EXCEPT !.half_open_calls = cb.half_open_calls + 1]
    /\ thr' = [thr EXCEPT ![t].pc = "invoke"]
    /\ UNCHANGED <<now, cbcfg, last, streak, episode>>
    /\ UNCHANGED possevars
    /\ UNCHANGED compvars
    /\ UNCHANGED logvars
    /\ UNCHANGED rss

\* line 86: func is entered
CallInvoke(t) ==
    /\ thr[t].pc = "invoke"
    /\ thr' = [thr EXCEPT ![t].pc = "running"]
    /\ episode' = IF thr[t].seen = "half_open" /\ cb.state = "half_open"
                  THEN episode + 1 ELSE episode
    /\ UNCHANGED <<now, cbcfg, cb, last, streak>>
    /\ UNCHANGED possevars
    /\ UNCHANGED compvars
    /\ UNCHANGED logvars
    /\ UNCHANGED rss

\* lines 87-91: func returned (res = "ok") or raised (res = "err")
CallReturn(t, res) ==
    LET b2 == IF res = "ok" THEN OnSuccess(cb) ELSE OnFailure(cb, cbcfg, now) IN
    /\ thr[t].pc = "running"
    /\ cb' = b2
    /\ thr' = [thr EXCEPT ![t].pc = "idle", ![t].outcome = res]
    /\ episode' = EpisodeAfter(b2)
    /\ UNCHANGED <<now, cbcfg, last, streak>>
    /\ UNCHANGED possevars
    /\ UNCHANGED compvars
    /\ UNCHANGED logvars
    /\ UNCHANGED rss

TickCBConc ==
    /\ now < MaxTime
    /\ now' = now + 1
    /\ UNCHANGED <<cbcfg, cb, last, streak, thr, episode>>
    /\ UNCHANGED possevars
    /\ UNCHANGED compvars
    /\ UNCHANGED logvars
    /\ UNCHANGED rss

NextCBConc ==
    \/ \E t \in Callers : CallRead(t)
    \/ \E t \in Callers : CallTest(t)
    \/ \E t \in Callers : CallCount(t)
    \/ \E t \in Callers : CallInvoke(t)
    \/ \E t \in Callers : CallReturn(t, "ok")
    \/ \E t \in Callers : CallReturn(t, "err")
    \/ TickCBConc

SpecCBConc == InitCBConc /\ [][NextCBConc]_vars

\* C10: during one HALF_OPEN episode at most half_open_max_calls calls are
\* passed to the operation, also when calls on the breaker overlap in time.
C10_TrialLimit ==
    cb.state = "half_open" => episode <= cbcfg.half_open_max_calls

----------------------------------------------------------------------------
(* retry.py *)

Min(a, b) == IF a <= b THEN a ELSE b

RECURSIVE Pow(_, _)
Pow(b, e) == IF e = 0 THEN 1 ELSE b * Pow(b, e - 1)

\* RetryConfig as the distributor uses it: the default max_attempts,
\* base_delay and multiplier, jitter off, and a small max_delay
DefaultMaxAttempts == 3
BaseDelay == 1
Multiplier == 2
MaxDelay == 2

\* DelayOf that does not cap the delay at max_delay
DelayOf_Uncapped(c, attempt) == c.base_delay * Pow(c.multiplier, attempt - 1)

\* retry.py line 72: the delay computed after the failed attempt number
\* `attempt` under the RetryConfig c
DelayOf(c, attempt) ==
    Min(c.base_delay * Pow(c.multiplier, attempt - 1), c.max_delay)

\* the delay slept after the failed attempt number `attempt` in the distributor
Delay(attempt) ==
    DelayOf([base_delay |-> BaseDelay, multiplier |-> Multiplier, max_delay |-> MaxDelay],
            attempt)

\* LastAttempt that gives up one attempt early
LastAttempt_Early(attempt, max_attempts) == attempt + 1 >= max_attempts

\* retry.py line 67: the failed attempt was the last one permitted
LastAttempt(attempt, max_attempts) == attempt = max_attempts

----------------------------------------------------------------------------
(* SpecRetry: one call of retry(func, config, sleep_func) *)

MaxRetryAttempts == 3
MaxBaseDelay == 2
MaxMultiplier == 2

\* the errors func raises; ConnectionError is a subclass of OSError
ExceptionKinds == {"RuntimeError", "ConnectionError", "ValueError"}

\* RetryConfig.retryable_exceptions: the default, and OSError alone
DefaultRetryable == {"RuntimeError", "OSError", "ConnectionError"}
RetryableSets == {DefaultRetryable, {"OSError"}}

RetryConfigs == [max_attempts : 0..MaxRetryAttempts,
                 base_delay : 1..MaxBaseDelay,
                 multiplier : 1..MaxMultiplier,
                 max_delay : 1..MaxDelay,
                 jitter : BOOLEAN,
                 retryable_exceptions : RetryableSets]

\* an except clause naming `classes` catches an error of class `kind`
Matches(kind, classes) ==
    \/ kind \in classes
    \/ kind = "ConnectionError" /\ "OSError" \in classes

\* Retryable that catches every error
Retryable_Any(c, e) == e.kind \in ExceptionKinds

\* Retryable that catches no error
Retryable_None(c, e) == e.kind \notin ExceptionKinds

\* retry.py line 65: the error e is caught by `except cfg.retryable_exceptions`
Retryable(c, e) == Matches(e.kind, c.retryable_exceptions)

\* last_exc before any attempt has failed
NoError == [kind |-> "None", msg |-> 0]

\* how a retry() call ended
StillRunning == [how |-> "none", value |-> 0, error |-> NoError,
                 attempts |-> 0, last_error |-> NoError]
Returned(v) == [StillRunning EXCEPT !.how = "return", !.value = v]
Propagated(e) == [StillRunning EXCEPT !.how = "raise", !.error = e]
RetryErrorOf(n, e) ==
    [StillRunning EXCEPT !.how = "raise", !.error = [kind |-> "RetryError", msg |-> 0],
                         !.attempts = n, !.last_error = e]

\* retry.py lines 73-75: the values do_sleep can be called with; with jitter
\* the delay is scaled by a factor between 0.5 and 1
SleepTimes(c, attempt) ==
    IF c.jitter
    THEN {x \in 0..DelayOf(c, attempt) : 2 * x >= DelayOf(c, attempt)}
    ELSE {DelayOf(c, attempt)}

IdleBreaker ==
    /\ now = 0
    /\ cbcfg = <<>>
    /\ cb = NewBreaker
    /\ last = NoOp
    /\ streak = 0
    /\ thr = <<>>
    /\ episode = 0

InitRetry ==
    /\ IdlePoller
    /\ IdleLog
    /\ IdleBreaker
    /\ IdlePosse
    /\ rt \in [cfg : RetryConfigs, pc : {"start"}, attempt : {0}, results : {<<>>},
               sleeps : {<<>>}, last_exc : {NoError}, outcome : {StillRunning}]
    /\ IdleLimiter

\* retry.py lines 58-62: the loop is entered, or its range is empty
RetryStart ==
    /\ rt.pc = "start"
    /\ rt' = IF rt.cfg.max_attempts >= 1
             THEN [rt EXCEPT !.pc = "call", !.attempt = 1]
             ELSE [rt EXCEPT !.pc = "done",
                             !.outcome = RetryErrorOf(rt.cfg.max_attempts, rt.last_exc)]
    /\ UNCHANGED <<now, cbcfg>>
    /\ UNCHANGED lvars
    /\ UNCHANGED cbvars
    /\ UNCHANGED possevars
    /\ UNCHANGED logvars
    /\ UNCHANGED rss

\* retry.py lines 63-70 and 77: func is invoked and returns (k = "ok") or
\* raises an error of class k
RetryInvoke(k) ==
    LET r == [kind |-> k, msg |-> rt.attempt]
        rt1 == [rt EXCEPT !.results = Append(@, r)] IN
    /\ rt.pc = "call"
    /\ rt' = IF k = "ok"
             THEN [rt1 EXCEPT !.pc = "done", !.outcome = Returned(r)]
             ELSE IF Retryable(rt.cfg, r)
             THEN IF LastAttempt(rt.attempt, rt.cfg.max_attempts)
                  THEN [rt1 EXCEPT !.pc = "done", !.last_exc = r,
                                   !.outcome = RetryErrorOf(rt.cfg.max_attempts, r)]
                  ELSE [rt1 EXCEPT !.pc = "sleep", !.last_exc = r]
             ELSE [rt1 EXCEPT !.pc = "done", !.outcome = Propagated(r)]
    /\ UNCHANGED <<now, cbcfg>>
    /\ UNCHANGED lvars
    /\ UNCHANGED cbvars
    /\ UNCHANGED possevars
    /\ UNCHANGED logvars
    /\ UNCHANGED rss

\* retry.py lines 72-75: the backoff sleep, then the next turn of the loop
RetrySleep ==
    /\ rt.pc = "sleep"
    /\ \E d \in SleepTimes(rt.cfg, rt.attempt) :
          rt' = [rt EXCEPT !.sleeps = Append(@, d), !.attempt = @ + 1, !.pc = "call"]
    /\ UNCHANGED <<now, cbcfg>>
    /\ UNCHANGED lvars
    /\ UNCHANGED cbvars
    /\ UNCHANGED possevars
    /\ UNCHANGED logvars
    /\ UNCHANGED rss

NextRetry ==
    \/ RetryStart
    \/ \E k \in {"ok"} \cup ExceptionKinds : RetryInvoke(k)
    \/ RetrySleep

SpecRetry == InitRetry /\ [][NextRetry]_vars

\* invocations of func so far
Invoked == Len(rt.results)

\* every invocation so far raised an error of the retryable set
AllRetryableFailures ==
    \A i \in 1..Invoked :
        /\ rt.results[i].kind # "ok"
        /\ Matches(rt.results[i].kind, rt.cfg.retryable_exceptions)

\* C13: with max_attempts = n >= 1 and a retryable error at every
\* invocation, retry invokes func exactly n times, sleeps exactly n-1 times
\* (not after the last attempt), the i-th sleep lasting
\* min(base_delay * multiplier^(i-1), max_delay) when jitter is off, and
\* raises RetryError with attempts = n.
C13_Exhaustion ==
    (rt.cfg.max_attempts >= 1 /\ AllRetryableFailures) =>
        /\ Invoked <= rt.cfg.max_attempts
        /\ Len(rt.sleeps) \in {Invoked - 1, Invoked}
        /\ Invoked = rt.cfg.max_attempts => Len(rt.sleeps) = Invoked - 1
        /\ (Invoked = rt.cfg.max_attempts) <=> (rt.pc = "done")
        /\ rt.pc = "done" =>
              /\ rt.outcome.how = "raise"
              /\ rt.outcome.error.kind = "RetryError"
              /\ rt.outcome.attempts = rt.cfg.max_attempts
        /\ ~rt.cfg.jitter =>
              \A i \in 1..Len(rt.sleeps) :
                  rt.sleeps[i] = Min(rt.cfg.base_delay * Pow(rt.cfg.multiplier, i - 1),
                                     rt.cfg.max_delay)

\* the largest max_attempts exhausted, with a delay that the cap cuts
C13_Witness ==
    /\ rt.pc = "done"
    /\ rt.cfg.max_attempts = MaxRetryAttempts
    /\ ~rt.cfg.jitter
    /\ AllRetryableFailures
    /\ Invoked = MaxRetryAttempts
    /\ rt.cfg.base_delay * rt.cfg.multiplier > rt.cfg.max_delay
    /\ rt.sleeps[2] = rt.cfg.max_delay
    /\ rt.outcome.attempts = MaxRetryAttempts

C15_LastErrorWrapped ==
    (/\ rt.pc = "done"
     /\ rt.cfg.max_attempts >= 1
     /\ Invoked = rt.cfg.max_attempts
     /\ \A i \in 1..Invoked : rt.results[i].kind # "ok") =>
        /\ rt.outcome.how = "raise"
        /\ rt.outcome.error.kind = "RetryError"
        /\ rt.outcome.last_error = rt.results[Invoked]

\* C40: for every max_attempts >= 0 retry invokes func at most max_attempts
\* times and sleeps at most max_attempts - 1 times (never, for 0), and a
\* RetryError is raised only after at least one invocation, its last_error
\* being the error the final invocation raised.
C40_BoundedAndLastErrorSet ==
    /\ Invoked <= rt.cfg.max_attempts
    /\ Len(rt.sleeps) <= IF rt.cfg.max_attempts >= 1 THEN rt.cfg.max_attempts - 1 ELSE 0
    /\ (rt.pc = "done" /\ rt.outcome.error.kind = "RetryError") =>
          /\ Invoked >= 1
          /\ rt.outcome.last_error # NoError
          /\ rt.outcome.last_error = rt.results[Invoked]

\* C16: if the j-th invocation is the first to return and the earlier ones
\* raised retryable errors, retry returns that invocation's result after
\* exactly j invocations and j-1 sleeps; nothing is invoked or slept after a
\* success, and while attempts remain after retryable failures the operation
\* is invoked again.
C16_FirstSuccessReturns ==
    /\ \A i \in 1..Invoked :
          rt.results[i].kind = "ok" =>
              /\ i = Invoked
              /\ i <= rt.cfg.max_attempts
              /\ rt.pc = "done"
              /\ rt.outcome.how = "return"
              /\ rt.outcome.value = rt.results[i]
              /\ Len(rt.sleeps) = i - 1
              /\ \A h \in 1..(i - 1) :
                    Matches(rt.results[h].kind, rt.cfg.retryable_exceptions)
    /\ (rt.pc # "start" /\ AllRetryableFailures /\ Invoked < rt.cfg.max_attempts) =>
            rt.pc \in {"call", "sleep"}

\* success at the last permitted attempt
C16_Witness ==
    /\ rt.pc = "done"
    /\ rt.cfg.max_attempts = MaxRetryAttempts
    /\ Invoked = MaxRetryAttempts
    /\ rt.results[Invoked].kind = "ok"
    /\ rt.outcome.how = "return"
    /\ Len(rt.sleeps) = MaxRetryAttempts - 1

----------------------------------------------------------------------------
(* rate_limiter.py *)

\* RateLimiterConfig defaults: one token per time unit, one token per acquire
TokensPerSecond == 1
AcquireCost == 1
\* RateLimiterConfig.max_tokens of the distributor's limiter
MaxTokens == 1

\* RateLimiterConfig of the distributor's limiter (initial_tokens = None)
PosseLimiterConfig ==
    [tokens_per_second |-> TokensPerSecond, max_tokens |-> MaxTokens,
     initial_tokens |-> <<>>]

\* RateLimiter.__init__ at time t; initial_tokens is <<>> for None
NewLimiter(c, t) ==
    [tokens |-> IF c.initial_tokens = <<>> THEN c.max_tokens ELSE c.initial_tokens[1],
     last_refill |-> t]

\* RateLimiter._refill at time t of a limiter configured with c
RefillWith(l, c, t) ==
    [tokens |-> Min(c.max_tokens, l.tokens + (t - l.last_refill) * c.tokens_per_second),
     last_refill |-> t]

\* RateLimiter._refill at time t of the distributor's limiter
Refill(l, t) == RefillWith(l, PosseLimiterConfig, t)

\* the debit of acquire
Debit(l, cost) == [l EXCEPT !.tokens = l.tokens - cost]

\* RetryAfterOf that forgets the refill rate
RetryAfterOf_NoRate(l, c, cost) == cost - l.tokens

\* lines 71-72: retry_after of a non-blocking acquire that found too few tokens
RetryAfterOf(l, c, cost) == (cost - l.tokens) \div c.tokens_per_second

\* WaitTimeOf that forgets the refill rate
WaitTimeOf_NoRate(l, c, cost) == cost - l.tokens

\* lines 76-77: wait_time of a blocking acquire that found too few tokens
WaitTimeOf(l, c, cost) == (cost - l.tokens) \div c.tokens_per_second

\* wait_time of a blocking acquire on the distributor's limiter
WaitTime(l, cost) == WaitTimeOf(l, PosseLimiterConfig, cost)

----------------------------------------------------------------------------
(* SpecRL: one limiter, one acquire at a time.  Token amounts are whole      *)
(* multiples of the refill rate, so that every deficit / rate is exact.      *)

MaxRate == 2
MaxUnits == 2

\* k units of tokens under the config c
Units(c, k) == k * c.tokens_per_second

LimiterConfigs ==
    UNION {[tokens_per_second : {r},
            max_tokens : {k * r : k \in 1..MaxUnits},
            initial_tokens : {<<>>} \cup {<<k * r>> : k \in 0..MaxUnits}] :
           r \in 1..MaxRate}

\* the `tokens` arguments of acquire
Costs(c) == {Units(c, k) : k \in 1..MaxUnits}

NoAcquire == [op |-> "none", cost |-> 0, block |-> FALSE, outcome |-> "none",
              retry_after |-> 0, slept |-> <<>>, advanced |-> 0, found |-> 0,
              at |-> 0, granted |-> 0]

InitRL ==
    /\ IdlePoller
    /\ IdleLog
    /\ IdleBreaker
    /\ IdlePosse
    /\ rt = <<>>
    /\ lcfg \in LimiterConfigs
    /\ bucket = NewLimiter(lcfg, 0)
    /\ lhist = NoAcquire
    /\ lthr = <<>>

\* acquire(cost, block); the sleep of a blocking acquire advances the clock
\* by wait_time + extra
RLAcquire(cost, block, extra) ==
    LET l1 == RefillWith(bucket, lcfg, now)
        w == WaitTimeOf(l1, lcfg, cost)
        h == [NoAcquire EXCEPT !.op = "acquire", !.cost = cost, !.block = block,
                               !.found = l1.tokens, !.at = now] IN
    IF l1.tokens >= cost
    THEN /\ extra = 0
         /\ bucket' = Debit(l1, cost)
         /\ lhist' = [h EXCEPT !.outcome = "ok", !.granted = lhist.granted + cost]
         /\ UNCHANGED now
    ELSE IF ~block
    THEN /\ extra = 0
         /\ bucket' = l1
         /\ lhist' = [h EXCEPT !.outcome = "RateLimitExceeded",
                               !.retry_after = RetryAfterOf(l1, lcfg, cost),
                               !.granted = lhist.granted]
         /\ UNCHANGED now
    ELSE /\ now + w + extra <= MaxTime
         /\ now' = now + w + extra
         /\ bucket' = Debit(RefillWith(l1, lcfg, now + w + extra), cost)
         /\ lhist' = [h EXCEPT !.outcome = "ok", !.slept = <<w>>,
                               !.advanced = w + extra,
                               !.granted = lhist.granted + cost]

\* RateLimiter.acquire
AcquireRL(cost, block, extra) ==
    /\ RLAcquire(cost, block, extra)
    /\ UNCHANGED <<cbcfg, rt, lcfg, lthr>>
    /\ UNCHANGED cbvars
    /\ UNCHANGED possevars
    /\ UNCHANGED logvars
    /\ UNCHANGED rss

\* RateLimiter.available_tokens
AvailableTokens ==
    /\ bucket' = RefillWith(bucket, lcfg, now)
    /\ lhist' = [NoAcquire EXCEPT !.op = "available", !.at = now,
                                  !.found = RefillWith(bucket, lcfg, now).tokens,
                                  !.granted = lhist.granted]
    /\ UNCHANGED <<now, cbcfg, rt, lcfg, lthr>>
    /\ UNCHANGED cbvars
    /\ UNCHANGED possevars
    /\ UNCHANGED logvars
    /\ UNCHANGED rss

\* the clock advances between two operations on the limiter
TickRL ==
    /\ now < MaxTime
    /\ now' = now + 1
    /\ UNCHANGED <<cbcfg, rt>>
    /\ UNCHANGED lvars
    /\ UNCHANGED cbvars
    /\ UNCHANGED possevars
    /\ UNCHANGED logvars
    /\ UNCHANGED rss

NextRL ==
    \/ \E cost \in Costs(lcfg), extra \in 0..1 : AcquireRL(cost, TRUE, extra)
    \/ \E cost \in Costs(lcfg) : AcquireRL(cost, FALSE, 0)
    \/ AvailableTokens
    \/ TickRL

SpecRL == InitRL /\ [][NextRL]_vars

\* the last operation was an acquire(cost, block) that found, after the lazy
\* refill, fewer than cost tokens
FoundTooFew(block) ==
    /\ lhist.op = "acquire"
    /\ lhist.block = block
    /\ lhist.found < lhist.cost

\* C17: a non-blocking acquire(cost) that finds fewer than cost tokens after
\* the lazy refill raises RateLimitExceeded with
\* retry_after = (cost - available) / rate > 0 and debits nothing; for
\* cost <= capacity the tokens suffice once the clock has advanced by at
\* least retry_after with nothing consumed, and a non-blocking acquire that
\* finds enough tokens succeeds and debits cost.
C17_NonBlockingDenied ==
    /\ FoundTooFew(FALSE) =>
          /\ lhist.outcome = "RateLimitExceeded"
          /\ lhist.retry_after * lcfg.tokens_per_second = lhist.cost - lhist.found
          /\ lhist.retry_after > 0
          /\ bucket.tokens = lhist.found
          /\ lhist.cost <= lcfg.max_tokens =>
                \A t \in lhist.at..(MaxTime + MaxUnits + 1) :
                    t - lhist.at >= lhist.retry_after =>
                        LET l1 == RefillWith(bucket, lcfg, t) IN
                        /\ l1.tokens >= lhist.cost
                        /\ Debit(l1, lhist.cost).tokens >= 0
    /\ (lhist.op = "acquire" /\ ~lhist.block /\ lhist.found >= lhist.cost) =>
          /\ lhist.outcome = "ok"
          /\ bucket.tokens = lhist.found - lhist.cost

\* capacity tokens were consumed and the next non-blocking acquire is denied
C17_Witness ==
    /\ FoundTooFew(FALSE)
    /\ lcfg.tokens_per_second = MaxRate
    /\ lhist.granted >= lcfg.max_tokens
    /\ lhist.found = 0
    /\ lhist.outcome = "RateLimitExceeded"
    /\ lhist.retry_after >= 1

\* C18: in every reachable state of the limiter the token count satisfies
\* 0 <= tokens <= capacity.
C18_TokensInRange ==
    /\ 0 <= bucket.tokens
    /\ bucket.tokens <= lcfg.max_tokens

\* C19: a blocking acquire(cost) never raises RateLimitExceeded; when it
\* finds too few tokens it sleeps once, for (cost - available) / rate, then
\* refills and debits without a further test and returns success; for
\* cost <= capacity, when the clock advanced by exactly the time slept, the
\* balance after the debit is not negative.
C19_BlockingAcquire ==
    /\ (lhist.op = "acquire" /\ lhist.block) => lhist.outcome = "ok"
    /\ FoundTooFew(TRUE) =>
          /\ Len(lhist.slept) = 1
          /\ lhist.slept[1] * lcfg.tokens_per_second = lhist.cost - lhist.found
          /\ lhist.advanced >= lhist.slept[1]
          /\ bucket.last_refill = lhist.at + lhist.advanced
          /\ bucket.tokens =
                Min(lcfg.max_tokens,
                    lhist.found + lhist.advanced * lcfg.tokens_per_second) - lhist.cost
          /\ (lhist.cost <= lcfg.max_tokens /\ lhist.advanced = lhist.slept[1]) =>
                bucket.tokens >= 0
    /\ (lhist.op = "acquire" /\ lhist.block /\ lhist.found >= lhist.cost) =>
          /\ lhist.slept = <<>>
          /\ bucket.tokens = lhist.found - lhist.cost

\* a blocking acquire of the whole capacity that slept for more than a unit
\* of time, the clock advancing by exactly the time slept
C19_Witness ==
    /\ FoundTooFew(TRUE)
    /\ lcfg.tokens_per_second = MaxRate
    /\ lhist.cost = lcfg.max_tokens
    /\ lhist.slept[1] >= 2
    /\ lhist.advanced = lhist.slept[1]
    /\ bucket.tokens = 0

----------------------------------------------------------------------------
(* SpecRLConc: one limiter shared by callers whose acquires overlap in time. *)
(* RateLimiter holds no lock, so an acquire is a sequence of separate steps: *)
(* the refill (line 64), the test (line 66), the debit (line 67), and for a  *)
(* blocking acquire the sleep (line 78) and the refill and debit after it    *)
(* (lines 79-80).                                                            *)

IdleAcquirer == [pc |-> "idle", cost |-> 0, block |-> FALSE, wake |-> 0,
                 outcome |-> "none"]

\* configurations whose initial tokens do not exceed the capacity
ConcLimiterConfigs ==
    {c \in LimiterConfigs : NewLimiter(c, 0).tokens <= c.max_tokens}

\* the `tokens` arguments of the overlapping acquires: at most the capacity
ConcCosts(c) == {k \in Costs(c) : k <= c.max_tokens}

InitRLConc ==
    /\ IdlePoller
    /\ IdleLog
    /\ IdleBreaker
    /\ IdlePosse
    /\ rt = <<>>
    /\ lcfg \in ConcLimiterConfigs
    /\ bucket = NewLimiter(lcfg, 0)
    /\ lhist = NoAcquire
    /\ lthr = [t \in Callers |-> IdleAcquirer]

\* line 64: acquire is entered and refills
AcqRefill(t, cost, block) ==
    /\ lthr[t].pc = "idle"
    /\ bucket' = RefillWith(bucket, lcfg, now)
    /\ lthr' = [lthr EXCEPT ![t] = [IdleAcquirer EXCEPT !.pc = "test", !.cost = cost,
                                                        !.block = block]]
    /\ UNCHANGED <<now, cbcfg, rt, lcfg, lhist>>
    /\ UNCHANGED cbvars
    /\ UNCHANGED possevars
    /\ UNCHANGED logvars
    /\ UNCHANGED rss

\* lines 66 and 70-78: the test of the balance; a blocking acquire that
\* fails it goes to sleep for wait_time
AcqTest(t) ==
    /\ lthr[t].pc = "test"
    /\ lthr' = [lthr EXCEPT ![t] =
                    IF bucket.tokens >= lthr[t].cost
                    THEN [lthr[t] EXCEPT !.pc = "debit"]
                    ELSE IF ~lthr[t].block
                    THEN [lthr[t] EXCEPT !.pc = "idle", !.outcome = "RateLimitExceeded"]
                    ELSE [lthr[t] EXCEPT !.pc = "sleep",
                              !.wake = now + WaitTimeOf(bucket, lcfg, lthr[t].cost)]]
    /\ UNCHANGED <<now, cbcfg, rt, lcfg, lhist, bucket>>
    /\ UNCHANGED cbvars
    /\ UNCHANGED possevars
    /\ UNCHANGED logvars
    /\ UNCHANGED rss

\* lines 67-68: the debit after a passed test
AcqDebit(t) ==
    /\ lthr[t].pc = "debit"
    /\ bucket' = Debit(bucket, lthr[t].cost)
    /\ lhist' = [lhist EXCEPT !.granted = @ + lthr[t].cost]
    /\ lthr' = [lthr EXCEPT ![t].pc = "idle", ![t].outcome = "ok"]
    /\ UNCHANGED <<now, cbcfg, rt, lcfg>>
    /\ UNCHANGED cbvars
    /\ UNCHANGED possevars
    /\ UNCHANGED logvars
    /\ UNCHANGED rss

\* lines 78-81: the sleep is over; refill and debit
AcqWake(t) ==
    /\ lthr[t].pc = "sleep"
    /\ now >= lthr[t].wake
    /\ bucket' = Debit(RefillWith(bucket, lcfg, now), lthr[t].cost)
    /\ lhist' = [lhist EXCEPT !.granted = @ + lthr[t].cost]
    /\ lthr' = [lthr EXCEPT ![t].pc = "idle", ![t].outcome = "ok"]
    /\ UNCHANGED <<now, cbcfg, rt, lcfg>>
    /\ UNCHANGED cbvars
    /\ UNCHANGED possevars
    /\ UNCHANGED logvars
    /\ UNCHANGED rss

TickRLConc ==
    /\ now < MaxTime
    /\ now' = now + 1
    /\ UNCHANGED <<cbcfg, rt>>
    /\ UNCHANGED lvars
    /\ UNCHANGED cbvars
    /\ UNCHANGED possevars
    /\ UNCHANGED logvars
    /\ UNCHANGED rss

NextRLConc ==
    \/ \E t \in Callers, cost \in ConcCosts(lcfg), block \in BOOLEAN :
          AcqRefill(t, cost, block)
    \/ \E t \in Callers : AcqTest(t)
    \/ \E t \in Callers : AcqDebit(t)
    \/ \E t \in Callers : AcqWake(t)
    \/ TickRLConc

SpecRLConc == InitRLConc /\ [][NextRLConc]_vars

\* C20: with several callers sharing one limiter and interleaving
\* arbitrarily, the tokens granted never exceed the initial tokens plus the
\* tokens accrued at the refill rate, and the balance is never negative.
C20_AtomicDebit ==
    /\ lhist.granted <= NewLimiter(lcfg, 0).tokens + lcfg.tokens_per_second * now
    /\ bucket.tokens >= 0

----------------------------------------------------------------------------
(* delivery_log.py *)

\* has_been_delivered that looks at the newest record only
HasBeenDelivered_Newest(records, post_id, platform) ==
    /\ Len(records) > 0
    /\ records[Len(records)].post_id = post_id
    /\ records[Len(records)].platform = platform
    /\ records[Len(records)].status = "success"

\* has_been_delivered that does not look at the status
HasBeenDelivered_AnyStatus(records, post_id, platform) ==
    \E i \in 1..Len(records) :
        /\ records[i].post_id = post_id
        /\ records[i].platform = platform

\* DeliveryLog.has_been_delivered
HasBeenDelivered(records, post_id, platform) ==
    \E i \in 1..Len(records) :
        /\ records[i].post_id = post_id
        /\ records[i].platform = platform
        /\ records[i].status = "success"

\* DeliveryLog.get_by_post
GetByPost(records, post_id) ==
    SelectSeq(records, LAMBDA r : r.post_id = post_id)

\* DeliveryLog.get_by_platform
GetByPlatform(records, platform) ==
    SelectSeq(records, LAMBDA r : r.platform = platform)

\* DeliveryLog.get_failures
GetFailures(records) ==
    SelectSeq(records, LAMBDA r : r.status = "failure")

(* JSON values, tagged with their type.  A Python str, a JSON string and    *)
(* the record field that holds it are different things: the str "success"  *)
(* is written as JStr("success") and read back by FromDict.                *)
JNull == [t |-> "null", v |-> <<>>]
JNum(n) == [t |-> "num", v |-> n]
JStr(s) == [t |-> "str", v |-> s]
JArr(items) == [t |-> "arr", v |-> items]
JObj(members) == [t |-> "obj", v |-> members]

(* The fields of DeliveryRecord.  external_url, error and metadata have     *)
(* defaults like timestamp and are written and read like status; they are  *)
(* left out.  A timestamp is <<>> for the empty string and <<t>> for the    *)
(* isoformat of the clock value t; record_id is the pair the distributor   *)
(* builds it from.                                                          *)
RecordFields == {"record_id", "post_id", "platform", "status", "timestamp"}
RequiredFields == {"record_id", "post_id", "platform", "status"}

\* the default of an optional field of DeliveryRecord
FieldDefault(k) == <<>>

\* DeliveryRecord(...) at clock value t: __post_init__ stamps an empty timestamp
DeliveryRecord(fields, t) ==
    [fields EXCEPT !.timestamp = IF @ = <<>> THEN <<t>> ELSE @]

\* asdict that loses the timestamp
Asdict_NoTimestamp(r) == JObj([k \in RequiredFields |-> JStr(r[k])])

\* dataclasses.asdict(r) as json.dumps writes it
Asdict(r) == JObj([k \in RecordFields |-> JStr(r[k])])

\* DeliveryRecord(**rec) raises TypeError unless rec is a mapping that has
\* every required field and no unknown one
CanBuild(j) ==
    /\ j.t = "obj"
    /\ DOMAIN j.v \subseteq RecordFields
    /\ RequiredFields \subseteq DOMAIN j.v

\* DeliveryRecord(**rec) at clock value t
FromDict(j, t) ==
    DeliveryRecord([k \in RecordFields |->
                       IF k \in DOMAIN j.v THEN j.v[k].v ELSE FieldDefault(k)], t)

(* A file: absent, or a text.  The text of a file is the serialisation of   *)
(* a JSON value, of which the file holds nothing ("empty"), a proper        *)
(* prefix ("partial"), everything ("complete"), or a mixture of it with     *)
(* another text ("mixed").                                                  *)
Absent == [part |-> "absent", doc |-> JNull]
EmptyText == [part |-> "empty", doc |-> JNull]
Text(doc, part) == [part |-> part, doc |-> doc]

\* json.dumps({"records": [asdict(r) for r in records]})
Dumps(records) ==
    JObj([k \in {"records"} |->
             JArr([i \in 1..Len(records) |-> Asdict(records[i])])])

\* DeliveryLog._load at clock value t: the records and the error it raises.
\* json.loads raises JSONDecodeError on a text that is not one whole JSON
\* value, data.get raises AttributeError unless data is a dict, iterating
\* or unpacking a value of the wrong type raises TypeError; only
\* JSONDecodeError and TypeError are caught.
Load(file, t) ==
    LET doc == file.doc IN
    IF file.part = "absent" THEN [records |-> <<>>, error |-> "none"]
    ELSE IF file.part # "complete" THEN [records |-> <<>>, error |-> "none"]
    ELSE IF doc.t # "obj" THEN [records |-> <<>>, error |-> "AttributeError"]
    ELSE IF "records" \notin DOMAIN doc.v THEN [records |-> <<>>, error |-> "none"]
    ELSE LET v == doc.v.records IN
         IF v.t = "arr" /\ \A i \in 1..Len(v.v) : CanBuild(v.v[i])
         THEN [records |-> [i \in 1..Len(v.v) |-> FromDict(v.v[i], t)],
               error |-> "none"]
         ELSE [records |-> <<>>, error |-> "none"]

\* a _save that writes to the backing file itself
WithSuffixTmp_InPlace == "path"

\* self._path.with_suffix(".tmp"): the file _save writes to
WithSuffixTmp == "tmp"

----------------------------------------------------------------------------
(* SpecLog: one process that constructs a DeliveryLog over a backing file,  *)
(* appends and queries, and may stop at any point, also in the middle of    *)
(* _save; the next process constructs its DeliveryLog over what the         *)
(* stopped one left behind.                                                 *)

MaxLogLen == 2
MaxLogTime == 1
MaxKeep == 1

LogPostIds == {"c1", "c2"}
LogPlatforms == {"mastodon", "discord"}
LogStatuses == {"success", "failure"}

\* the (post_id, platform) pairs records are appended for
LogPairs == {<<"c1", "mastodon">>, <<"c1", "discord">>, <<"c2", "mastodon">>}

\* the records callers hand to append: built at clock value t with no timestamp
NewRecords(t) ==
    {DeliveryRecord([record_id |-> x, post_id |-> x[1], platform |-> x[2],
                     status |-> s, timestamp |-> <<>>], t) :
       x \in LogPairs, s \in LogStatuses}

\* a record written by an earlier process
SeedRecord == DeliveryRecord([record_id |-> <<"c1", "mastodon">>, post_id |-> "c1",
                              platform |-> "mastodon", status |-> "success",
                              timestamp |-> <<>>], 0)

\* backing files that hold what _save writes
SavedFiles == {Text(Dumps(<<>>), "complete"), Text(Dumps(<<SeedRecord>>), "complete")}

\* texts that are not JSON
NotJSONFiles == {EmptyText, Text(Dumps(<<SeedRecord>>), "partial")}

\* JSON texts whose top level is not an object
NotObjectFiles ==
    {Text(JArr(<<>>), "complete"), Text(JNull, "complete"), Text(JNum(1), "complete")}

\* JSON objects whose 'records' is not a list of well-formed records: not a
\* list, a list of something else, a record without status, a record with an
\* unknown field
BadRecordsFiles ==
    {Text(JObj([records |-> j]), "complete") :
       j \in {JNull, JNum(1),
              JArr(<<JNum(1)>>),
              JArr(<<JObj([record_id |-> JStr(<<"c1", "mastodon">>),
                           post_id |-> JStr("c1"),
                           platform |-> JStr("mastodon")])>>),
              JArr(<<JObj([record_id |-> JStr(<<"c1", "mastodon">>),
                           post_id |-> JStr("c1"),
                           platform |-> JStr("mastodon"),
                           status |-> JStr("success"),
                           bogus |-> JNum(1)])>>)}}

MalformedFiles == NotJSONFiles \cup NotObjectFiles \cup BadRecordsFiles

InitialFiles == {Absent} \cup SavedFiles \cup MalformedFiles

NoLogOp == [op |-> "none", arg |-> <<>>, answer |-> FALSE, before |-> <<>>,
            file_before |-> Absent, at |-> "idle"]

\* no DeliveryLog object exists
NoLog == [built |-> "none", path |-> FALSE, records |-> <<>>, pc |-> "idle",
          text |-> Absent, hist |-> NoLogOp]

Files == [path |-> Absent, tmp |-> Absent]

InitLog ==
    /\ IdlePoller
    /\ IdleBreaker
    /\ IdlePosse
    /\ IdleComp
    /\ dl = NoLog
    /\ fs \in {[Files EXCEPT !.path = f] : f \in InitialFiles}

\* DeliveryLog(path) or DeliveryLog(), and DeliveryLog(path, max_records=m):
\* __init__ has no max_records parameter, so the latter raises TypeError
Construct(has_path, max_records) ==
    /\ dl.built # "ok"
    /\ LET l == IF has_path THEN Load(fs.path, now) ELSE Load(Absent, now)
           h == [NoLogOp EXCEPT !.op = "construct", !.arg = max_records,
                                !.file_before = fs.path] IN
       dl' = IF max_records # <<>>
             THEN [NoLog EXCEPT !.built = "TypeError", !.hist = h]
             ELSE IF l.error # "none"
             THEN [NoLog EXCEPT !.built = l.error, !.hist = h]
             ELSE [NoLog EXCEPT !.built = "ok", !.path = has_path,
                                !.records = l.records, !.hist = h]
    /\ UNCHANGED <<now, cbcfg, fs>>
    /\ UNCHANGED cbvars
    /\ UNCHANGED possevars
    /\ UNCHANGED compvars
    /\ UNCHANGED rss

\* append, lines 63 and 55-57: the record joins the list; without a path
\* _save returns at once, with one it serialises the list
LogAppend(r) ==
    /\ dl.built = "ok"
    /\ dl.pc = "idle"
    /\ Len(dl.records) < MaxLogLen
    /\ LET h == [NoLogOp EXCEPT !.op = "append", !.arg = <<r>>,
                                !.before = dl.records, !.file_before = fs.path] IN
       dl' = [dl EXCEPT !.records = Append(@, r),
                        !.pc = IF dl.path THEN "open" ELSE "idle",
                        !.text = IF dl.path
                                 THEN Text(Dumps(Append(dl.records, r)), "complete")
                                 ELSE Absent,
                        !.hist = IF dl.path THEN [h EXCEPT !.at = "saving"] ELSE h]
    /\ UNCHANGED <<now, cbcfg, fs>>
    /\ UNCHANGED cbvars
    /\ UNCHANGED possevars
    /\ UNCHANGED compvars
    /\ UNCHANGED rss

\* line 59, open(tmp, "w"): the file is created or truncated
SaveOpen ==
    /\ dl.pc = "open"
    /\ fs' = [fs EXCEPT ![WithSuffixTmp] = EmptyText]
    /\ dl' = [dl EXCEPT !.pc = "write"]
    /\ UNCHANGED <<now, cbcfg>>
    /\ UNCHANGED cbvars
    /\ UNCHANGED possevars
    /\ UNCHANGED compvars
    /\ UNCHANGED rss

\* line 59, write: a part of the text has reached the file
SaveWritePart ==
    /\ dl.pc = "write"
    /\ fs[WithSuffixTmp].part = "empty"
    /\ fs' = [fs EXCEPT ![WithSuffixTmp] = Text(dl.text.doc, "partial")]
    /\ UNCHANGED <<now, cbcfg, dl>>
    /\ UNCHANGED cbvars
    /\ UNCHANGED possevars
    /\ UNCHANGED compvars
    /\ UNCHANGED rss

\* line 59, write and close: the whole text is in the file
SaveWriteAll ==
    /\ dl.pc = "write"
    /\ fs' = [fs EXCEPT ![WithSuffixTmp] = dl.text]
    /\ dl' = [dl EXCEPT !.pc = "replace"]
    /\ UNCHANGED <<now, cbcfg>>
    /\ UNCHANGED cbvars
    /\ UNCHANGED possevars
    /\ UNCHANGED compvars
    /\ UNCHANGED rss

\* line 60, os.replace(tmp, path); append returns
SaveReplace ==
    /\ dl.pc = "replace"
    /\ fs' = IF WithSuffixTmp = "path" THEN fs
             ELSE [fs EXCEPT !.path = fs[WithSuffixTmp], ![WithSuffixTmp] = Absent]
    /\ dl' = [dl EXCEPT !.pc = "idle", !.text = Absent, !.hist.at = "idle"]
    /\ UNCHANGED <<now, cbcfg>>
    /\ UNCHANGED cbvars
    /\ UNCHANGED possevars
    /\ UNCHANGED compvars
    /\ UNCHANGED rss

\* has_been_delivered(post_id, platform)
LogQuery(post_id, platform) ==
    /\ dl.built = "ok"
    /\ dl.pc = "idle"
    /\ dl' = [dl EXCEPT !.hist =
                 [NoLogOp EXCEPT !.op = "has_been_delivered",
                                 !.arg = <<post_id, platform>>,
                                 !.answer = HasBeenDelivered(dl.records, post_id, platform)]]
    /\ UNCHANGED <<now, cbcfg, fs>>
    /\ UNCHANGED cbvars
    /\ UNCHANGED possevars
    /\ UNCHANGED compvars
    /\ UNCHANGED rss

\* the process stops, between two calls or inside append: its DeliveryLog
\* object is gone, the files stay as they are
Crash ==
    /\ dl.built = "ok"
    /\ dl' = [NoLog EXCEPT !.hist =
                 [NoLogOp EXCEPT !.op = "crash", !.at = dl.pc,
                                 !.arg = dl.hist.arg,
                                 !.before = dl.hist.before,
                                 !.file_before = dl.hist.file_before]]
    /\ UNCHANGED <<now, cbcfg, fs>>
    /\ UNCHANGED cbvars
    /\ UNCHANGED possevars
    /\ UNCHANGED compvars
    /\ UNCHANGED rss

TickLog ==
    /\ now < MaxLogTime
    /\ now' = now + 1
    /\ UNCHANGED <<cbcfg>>
    /\ UNCHANGED logvars
    /\ UNCHANGED cbvars
    /\ UNCHANGED possevars
    /\ UNCHANGED compvars
    /\ UNCHANGED rss

NextLog ==
    \/ \E has_path \in BOOLEAN : Construct(has_path, <<>>)
    \/ \E m \in 1..MaxKeep : Construct(TRUE, <<m>>)
    \/ \E r \in NewRecords(now) : LogAppend(r)
    \/ SaveOpen
    \/ SaveWritePart
    \/ SaveWriteAll
    \/ SaveReplace
    \/ \E c \in LogPostIds, p \in LogPlatforms : LogQuery(c, p)
    \/ Crash
    \/ TickLog

SpecLog == InitLog /\ [][NextLog]_vars

\* C21: has_been_delivered(c, p) answers true if and only if the ledger
\* holds a record with content id c, platform p and status 'success';
\* failure records for (c, p) and success records for other contents or
\* platforms do not make it true.
C21_HasBeenDelivered ==
    dl.hist.op = "has_been_delivered" =>
        (dl.hist.answer <=>
            \E i \in 1..Len(dl.records) :
                /\ dl.records[i].post_id = dl.hist.arg[1]
                /\ dl.records[i].platform = dl.hist.arg[2]
                /\ dl.records[i].status = "success")

\* the ledger holds a failure record for (c, p) and a success record for
\* another content, and has_been_delivered(c, p) was asked
C21_Witness ==
    /\ dl.hist.op = "has_been_delivered"
    /\ ~dl.hist.answer
    /\ \E i, j \in 1..Len(dl.records) :
          /\ dl.records[i].post_id = dl.hist.arg[1]
          /\ dl.records[i].platform = dl.hist.arg[2]
          /\ dl.records[i].status = "failure"
          /\ dl.records[j].post_id # dl.hist.arg[1]
          /\ dl.records[j].platform = dl.hist.arg[2]
          /\ dl.records[j].status = "success"

\* C22: a ledger requested with a maximum record count m is constructed and
\* never holds more than m records.
C22_MaxRecords ==
    (dl.hist.op = "construct" /\ dl.hist.arg # <<>>) =>
        /\ dl.built = "ok"
        /\ Len(dl.records) <= dl.hist.arg[1]

C26_MalformedIsEmpty ==
    (dl.hist.op = "construct" /\ dl.hist.arg = <<>>
        /\ dl.hist.file_before \in MalformedFiles) =>
        /\ dl.built = "ok"
        /\ dl.records = <<>>

----------------------------------------------------------------------------
(* SpecLogConc: two writers, each with its own DeliveryLog object loaded    *)
(* from the same backing file, whose appends overlap in time.  DeliveryLog  *)
(* takes no lock and both writers use the same temporary file name, so an   *)
(* append is a sequence of separate steps: the list is extended and         *)
(* serialised (lines 63 and 57), the temporary file is opened (line 59),    *)
(* written (line 59) and moved over the backing file (line 60).  A writer   *)
(* writes through the handle it opened: to the file that handle refers to,  *)
(* under whatever name that file has by then.                               *)

LogWriters == {"w1", "w2"}

\* len(platform) for the platforms of LogPlatforms
PlatformLen(p) == IF p = "mastodon" THEN 8 ELSE 7

\* the length of the text json.dumps gives for a list of records, up to a
\* constant: the records differ in length by their platform, which occurs in
\* record_id and in platform
TextLen(records) ==
    LET RECURSIVE Sum(_)
        Sum(i) == IF i = 0 THEN 0 ELSE Sum(i - 1) + 2 * PlatformLen(records[i].platform)
    IN  Sum(Len(records))

\* a writer that has not started its append
IdleWriter(records) ==
    [records |-> records, pc |-> "idle", text |-> Absent, target |-> "none",
     outcome |-> "none", arg |-> <<>>]

InitLogConc ==
    /\ IdlePoller
    /\ IdleBreaker
    /\ IdlePosse
    /\ IdleComp
    /\ fs \in {[Files EXCEPT !.path = f] : f \in {Absent} \cup SavedFiles}
    /\ dl = [w \in LogWriters |-> IdleWriter(Load(fs.path, now).records)]

\* lines 63 and 55-57: the record joins the writer's list, which is serialised
WriterAppend(w, r) ==
    /\ dl[w].pc = "idle"
    /\ dl' = [dl EXCEPT ![w].records = Append(@, r),
                        ![w].text = Text(Dumps(Append(dl[w].records, r)), "complete"),
                        ![w].arg = <<r>>,
                        ![w].pc = "open"]
    /\ UNCHANGED <<now, cbcfg, fs>>
    /\ UNCHANGED cbvars
    /\ UNCHANGED possevars
    /\ UNCHANGED compvars
    /\ UNCHANGED rss

\* line 59, open(tmp, "w"): the temporary file is created, or truncated if
\* it exists
WriterOpen(w) ==
    /\ dl[w].pc = "open"
    /\ fs' = [fs EXCEPT !.tmp = EmptyText]
    /\ dl' = [dl EXCEPT ![w].pc = "write", ![w].target = "tmp"]
    /\ UNCHANGED <<now, cbcfg>>
    /\ UNCHANGED cbvars
    /\ UNCHANGED possevars
    /\ UNCHANGED compvars
    /\ UNCHANGED rss

\* what a file holds after the text new was written from its start: new, or
\* a mixture when a longer, different text was there
Overwrite(old, new) ==
    IF old.part = "empty" \/ old.doc = new.doc THEN new
    ELSE IF old.part = "mixed" THEN Text(new.doc, "mixed")
    ELSE IF TextLen(Load(old, 0).records) > TextLen(Load(new, 0).records)
    THEN Text(new.doc, "mixed")
    ELSE new

\* line 59, write and close, through the handle opened before
WriterWrite(w) ==
    /\ dl[w].pc = "write"
    /\ fs' = IF dl[w].target = "orphan" THEN fs
             ELSE [fs EXCEPT ![dl[w].target] = Overwrite(@, dl[w].text)]
    /\ dl' = [dl EXCEPT ![w].pc = "replace", ![w].target = "none"]
    /\ UNCHANGED <<now, cbcfg>>
    /\ UNCHANGED cbvars
    /\ UNCHANGED possevars
    /\ UNCHANGED compvars
    /\ UNCHANGED rss

\* the file an open handle refers to after os.replace(tmp, path)
Renamed(target) ==
    IF target = "tmp" THEN "path"
    ELSE IF target = "path" THEN "orphan"
    ELSE target

\* line 60, os.replace(tmp, path): FileNotFoundError when the temporary file
\* is gone; append returns or raises
WriterReplace(w) ==
    /\ dl[w].pc = "replace"
    /\ IF fs.tmp.part = "absent"
       THEN /\ dl' = [dl EXCEPT ![w].pc = "done", ![w].outcome = "FileNotFoundError"]
            /\ UNCHANGED fs
       ELSE /\ fs' = [path |-> fs.tmp, tmp |-> Absent]
            /\ dl' = [o \in LogWriters |->
                        IF o = w
                        THEN [dl[w] EXCEPT !.pc = "done", !.outcome = "ok"]
                        ELSE [dl[o] EXCEPT !.target = Renamed(@)]]
    /\ UNCHANGED <<now, cbcfg>>
    /\ UNCHANGED cbvars
    /\ UNCHANGED possevars
    /\ UNCHANGED compvars
    /\ UNCHANGED rss

NextLogConc ==
    \/ \E w \in LogWriters, r \in NewRecords(now) : WriterAppend(w, r)
    \/ \E w \in LogWriters : WriterOpen(w)
    \/ \E w \in LogWriters : WriterWrite(w)
    \/ \E w \in LogWriters : WriterReplace(w)

SpecLogConc == InitLogConc /\ [][NextLogConc]_vars

\* C24: with two writers appending to one backing file at overlapping times,
\* the backing file never holds a partial or mixed text, no append fails,
\* and when both appends have returned the backing file holds both records.
C24_WritersDoNotInterleave ==
    /\ fs.path.part \in {"absent", "complete"}
    /\ \A w \in LogWriters : dl[w].outcome \in {"none", "ok"}
    /\ (\A w \in LogWriters : dl[w].pc = "done" /\ dl[w].outcome = "ok") =>
          \A w \in LogWriters :
              \E i \in 1..Len(Load(fs.path, now).records) :
                  Load(fs.path, now).records[i] = dl[w].arg[1]

----------------------------------------------------------------------------
(* posse.py *)

Platforms == {"mastodon", "discord", "rss"}
\* the platforms syndicate has a client branch for (bluesky and ghost follow
\* the same path as these two)
ClientPlatforms == {"mastodon", "discord"}
PostIds == {"c1"}

\* what one invocation of a collaborator does: it returns, raises an error of
\* RetryConfig.retryable_exceptions, or raises another error
Results == {"ok", "retryable", "fatal"}

TargetLists == UNION {[1..n -> Platforms] : n \in 0..MaxTargets}

NoClientMessage(p) ==
    CASE p = "mastodon" -> "No client configured for mastodon"
      [] p = "discord" -> "No client configured for discord"
      [] OTHER -> "No client configured for rss"

\* SyndicationRecord; published_at is set by mark_published only
Outcome(p, status, url, error) ==
    [platform |-> p, status |-> status, external_url |-> url, error |-> error,
     published_at |-> IF status = "published" THEN "now" ELSE "None"]

\* the record of a target platform without a configured client that is
\* marked published
NoClientOutcome_Published(p) == Outcome(p, "published", "url", "")

\* syndicate, lines 306-309: the record of a target platform without a
\* configured client
NoClientOutcome(p) == Outcome(p, "skipped", "", NoClientMessage(p))

\* what a collaborator returns: MastodonClient.post_toot a dict with a
\* 'url', DiscordWebhook.send_embed a dict without one
ClientResult(p) ==
    IF p = "mastodon"
    THEN [id |-> "toot-000001", url |-> "https://mastodon.test/@user/1"]
    ELSE [id |-> "1", webhook |-> "https://discord.test/hook"]

\* f"https://<platform>.example.com/{post.post_id}" for the post ids of PostIds
FallbackUrl(p, post_id) ==
    CASE p = "mastodon" /\ post_id = "c1" -> "https://mastodon.example.com/c1"
      [] p = "discord" /\ post_id = "c1" -> "https://discord.example.com/c1"

\* a dict.get without the default
ResultGet_NoDefault(result, key, default) ==
    IF key \in DOMAIN result THEN result[key] ELSE ""

\* result.get(key, default)
ResultGet(result, key, default) ==
    IF key \in DOMAIN result THEN result[key] ELSE default

\* a _log_delivery that writes the status of a skipped outcome as 'skipped'
DeliveryRecordOf_KeepSkipped(post_id, rec) ==
    [record_id |-> <<post_id, rec.platform>>,
     post_id |-> post_id,
     platform |-> rec.platform,
     status |-> IF rec.status = "published" THEN "success"
                ELSE IF rec.status = "skipped" THEN "skipped" ELSE "failure",
     external_url |-> rec.external_url,
     error |-> rec.error]

\* the DeliveryRecord _log_delivery builds from a SyndicationRecord
DeliveryRecordOf(post_id, rec) ==
    [record_id |-> <<post_id, rec.platform>>,
     post_id |-> post_id,
     platform |-> rec.platform,
     status |-> IF rec.status = "published" THEN "success" ELSE "failure",
     external_url |-> rec.external_url,
     error |-> rec.error]

\* no collaborator was invoked yet
NoCalls == [p \in Platforms |-> [r \in Results |-> 0]]

\* how PosseDistributor was constructed: with every resilience layer and a
\* file-backed delivery log; as factory.build_distributor builds it (clients
\* and a delivery log only); and with a client for discord only, a breaker registered for mastodon and
\* no delivery log
FullChain == [ledger |-> "file", retry |-> TRUE, max_attempts |-> DefaultMaxAttempts,
              clients |-> ClientPlatforms, breakers |-> ClientPlatforms, limiter |-> TRUE]
LogOnly == [FullChain EXCEPT !.retry = FALSE, !.breakers = {}, !.limiter = FALSE]
OneClient == [LogOnly EXCEPT !.ledger = "none", !.clients = {"discord"},
                             !.breakers = {"mastodon"}]

\* retry inside a breaker, two attempts, no limiter and no log
RetryInBreaker == [FullChain EXCEPT !.ledger = "none", !.max_attempts = 2, !.limiter = FALSE]

PosseConfigs == {FullChain, LogOnly, OneClient, RetryInBreaker}

PosseCBConfigs == [failure_threshold : 1..MaxThreshold, reset_timeout : {MaxResetTimeout},
                   half_open_max_calls : {1}]

Init ==
    /\ IdlePoller
    /\ IdleLog
    /\ now = 0
    /\ cbcfg \in PosseCBConfigs
    /\ cb = NewBreaker
    /\ last = NoOp
    /\ streak = 0
    /\ thr = <<>>
    /\ episode = 0
    /\ cfg \in PosseConfigs
    /\ cfg # RetryInBreaker => cbcfg.failure_threshold = 1
    /\ posts = <<>>
    /\ ledger = <<>>
    /\ breakers = [p \in cfg.breakers |-> NewBreaker]
    /\ limiter = [tokens |-> MaxTokens, last_refill |-> 0]
    /\ pc = "idle"
    /\ cur = NoCall
    /\ calls = NoCalls
    /\ trace = <<>>
    /\ raised = "none"
    /\ snap = 0
    /\ nsyn = 0
    /\ oks = [c \in PostIds |-> [p \in Platforms |-> 0]]
    /\ IdleComp

\* the platform the loop of syndicate is at
P == cur.platforms[cur.idx]

InLoop == pc = "loop" /\ cur.idx <= Len(cur.platforms)

\* a dedup test that takes any record of the pair for a delivery
Deduped_AnyRecord ==
    cfg.ledger # "none" /\ HasBeenDelivered_AnyStatus(ledger, cur.post_id, P)

Deduped == cfg.ledger # "none" /\ HasBeenDelivered(ledger, cur.post_id, P)

\* RetryTarget of a chain in which retry wraps the limiter and the breaker too
RetryTarget_WholeChain == "acquire"

\* posse.py lines 147-152: what retry re-runs after a backoff sleep is the
\* raw collaborator call
RetryTarget == "attempt"

\* create_post
CreatePost(c, plats) ==
    /\ pc = "idle"
    /\ posts' = [x \in (DOMAIN posts) \cup {c} |->
                    IF x = c THEN [platforms |-> plats, syndications |-> <<>>]
                    ELSE posts[x]]
    /\ UNCHANGED <<now, cbcfg, cfg, ledger, breakers, limiter, pc, cur, calls,
                   trace, raised, snap, nsyn, oks>>
    /\ UNCHANGED cbvars
    /\ UNCHANGED compvars
    /\ UNCHANGED logvars
    /\ UNCHANGED rss

\* syndicate, lines 286-287
SyndicateBegin(c) ==
    /\ pc = "idle"
    /\ c \in DOMAIN posts
    /\ nsyn < MaxSyndicates
    /\ pc' = "loop"
    /\ cur' = [NoCall EXCEPT !.post_id = c, !.platforms = posts[c].platforms, !.idx = 1]
    /\ calls' = NoCalls
    /\ trace' = <<>>
    /\ raised' = "none"
    /\ snap' = Len(ledger)
    /\ nsyn' = nsyn + 1
    /\ UNCHANGED <<now, cbcfg, cfg, posts, ledger, breakers, limiter, oks>>
    /\ UNCHANGED cbvars
    /\ UNCHANGED compvars
    /\ UNCHANGED logvars
    /\ UNCHANGED rss

\* a dedup skip that leaves no outcome
DedupSkip_NoRecord ==
    /\ InLoop
    /\ Deduped
    /\ cur' = [cur EXCEPT !.idx = @ + 1]
    /\ UNCHANGED <<now, cbcfg, cfg, posts, ledger, breakers, limiter, pc, calls,
                   trace, raised, snap, nsyn, oks>>
    /\ UNCHANGED cbvars
    /\ UNCHANGED compvars
    /\ UNCHANGED logvars
    /\ UNCHANGED rss

\* syndicate, lines 291-296: the dedup skip
DedupSkip ==
    /\ InLoop
    /\ Deduped
    /\ cur' = [cur EXCEPT
                 !.records = Append(@, Outcome(P, "skipped", "", "Already delivered (dedup)")),
                 !.idx = @ + 1]
    /\ UNCHANGED <<now, cbcfg, cfg, posts, ledger, breakers, limiter, pc, calls,
                   trace, raised, snap, nsyn, oks>>
    /\ UNCHANGED cbvars
    /\ UNCHANGED compvars
    /\ UNCHANGED logvars
    /\ UNCHANGED rss

\* syndicate, lines 306-310: no client configured
NoClientSkip ==
    /\ InLoop
    /\ ~Deduped
    /\ P \notin cfg.clients
    /\ cur' = [cur EXCEPT
                 !.records = Append(@, NoClientOutcome(P)), !.out = "no client"]
    /\ trace' = <<>>
    /\ pc' = "log"
    /\ UNCHANGED <<now, cbcfg, cfg, posts, ledger, breakers, limiter, calls,
                   raised, snap, nsyn, oks>>
    /\ UNCHANGED cbvars
    /\ UNCHANGED compvars
    /\ UNCHANGED logvars
    /\ UNCHANGED rss

\* syndicate, lines 298-305: a _syndicate_<platform> method is entered
DispatchStart ==
    /\ InLoop
    /\ ~Deduped
    /\ P \in cfg.clients
    /\ cur' = [cur EXCEPT !.attempt = 1]
    /\ trace' = <<>>
    /\ pc' = "acquire"
    /\ UNCHANGED <<now, cbcfg, cfg, posts, ledger, breakers, limiter, calls,
                   raised, snap, nsyn, oks>>
    /\ UNCHANGED cbvars
    /\ UNCHANGED compvars
    /\ UNCHANGED logvars
    /\ UNCHANGED rss

\* _with_resilience, lines 140-141, up to the sleep of a blocking acquire
Acquire ==
    /\ pc = "acquire"
    /\ IF ~cfg.limiter
       THEN /\ pc' = "breaker"
            /\ UNCHANGED <<limiter, cur, trace>>
       ELSE LET l1 == Refill(limiter, now) IN
            /\ trace' = Append(trace, "acquire")
            /\ IF l1.tokens >= AcquireCost
               THEN /\ limiter' = Debit(l1, AcquireCost)
                    /\ pc' = "breaker"
                    /\ UNCHANGED cur
               ELSE /\ limiter' = l1
                    /\ cur' = [cur EXCEPT !.wait = WaitTime(l1, AcquireCost)]
                    /\ pc' = "wait"
    /\ UNCHANGED <<now, cbcfg, cfg, posts, ledger, breakers, calls, raised, snap, nsyn, oks>>
    /\ UNCHANGED cbvars
    /\ UNCHANGED compvars
    /\ UNCHANGED logvars
    /\ UNCHANGED rss

\* rate_limiter.py lines 78-81: the sleep of the blocking acquire, then the
\* refill and the debit
AcquireWait ==
    /\ pc = "wait"
    /\ now + cur.wait <= MaxTime
    /\ now' = now + cur.wait
    /\ limiter' = Debit(Refill(limiter, now + cur.wait), AcquireCost)
    /\ pc' = "breaker"
    /\ UNCHANGED <<cbcfg, cfg, posts, ledger, breakers, cur, calls, trace, raised, snap, nsyn, oks>>
    /\ UNCHANGED cbvars
    /\ UNCHANGED compvars
    /\ UNCHANGED logvars
    /\ UNCHANGED rss

\* the SyndicationRecord of a dispatch whose chain ended with `out`
ChainOutcome(out) ==
    IF out = "ok"
    THEN Outcome(P, "published",
                 ResultGet(ClientResult(P), "url", FallbackUrl(P, cur.post_id)), "")
    ELSE Outcome(P, "failed", "", out)

\* _with_resilience, lines 144-153, and CircuitBreaker.call up to func
BreakerEnter ==
    /\ pc = "breaker"
    /\ IF P \notin cfg.breakers
       THEN /\ pc' = "attempt"
            /\ UNCHANGED <<breakers, cur, trace>>
       ELSE LET b1 == StateProp(breakers[P], cbcfg, now) IN
            /\ trace' = Append(trace, "breaker")
            /\ IF Rejects(b1, cbcfg)
               THEN /\ breakers' = [breakers EXCEPT ![P] = b1]
                    /\ cur' = [cur EXCEPT !.pre = breakers[P], !.at = now,
                                 !.out = "CircuitOpenError",
                                 !.records = Append(@, ChainOutcome("CircuitOpenError"))]
                    /\ pc' = "log"
               ELSE /\ breakers' = [breakers EXCEPT ![P] = Admit(b1)]
                    /\ cur' = [cur EXCEPT !.pre = breakers[P], !.at = now]
                    /\ pc' = "attempt"
    /\ UNCHANGED <<now, cbcfg, cfg, posts, ledger, limiter, calls, raised, snap, nsyn, oks>>
    /\ UNCHANGED cbvars
    /\ UNCHANGED compvars
    /\ UNCHANGED logvars
    /\ UNCHANGED rss

\* a chain end that books the result on the breaker of every platform
ChainDone_AllBreakers(out) ==
    /\ breakers' = [q \in DOMAIN breakers |->
                       IF out = "ok" THEN OnSuccess(breakers[q])
                       ELSE OnFailure(breakers[q], cbcfg, now)]
    /\ trace' = Append(Append(trace, "invoke"), "return")
    /\ cur' = [cur EXCEPT !.records = Append(@, ChainOutcome(out)), !.out = out]
    /\ pc' = "log"

\* the chain ends with `out`: the breaker books the result (lines 87-91 of
\* circuit_breaker.py) and the _syndicate_<platform> method marks its record
ChainDone(out) ==
    /\ breakers' = IF P \in cfg.breakers
                   THEN [breakers EXCEPT ![P] =
                            IF out = "ok" THEN OnSuccess(@) ELSE OnFailure(@, cbcfg, now)]
                   ELSE breakers
    /\ trace' = Append(Append(trace, "invoke"), "return")
    /\ cur' = [cur EXCEPT !.records = Append(@, ChainOutcome(out)), !.out = out]
    /\ pc' = "log"

\* an invocation inside a retry that sits outside the breaker: every failed
\* attempt is booked on the breaker
Attempt_BooksEachFailure(res) ==
    /\ pc = "attempt"
    /\ calls' = [calls EXCEPT ![P][res] = @ + 1]
    /\ IF res = "retryable" /\ cfg.retry
       THEN IF LastAttempt(cur.attempt, cfg.max_attempts)
            THEN ChainDone("RetryError")
            ELSE /\ pc' = "backoff"
                 /\ trace' = Append(trace, "invoke")
                 /\ breakers' = IF P \in cfg.breakers
                                THEN [breakers EXCEPT ![P] = OnFailure(@, cbcfg, now)]
                                ELSE breakers
                 /\ UNCHANGED cur
       ELSE ChainDone(res)
    /\ oks' = IF res = "ok" THEN [oks EXCEPT ![cur.post_id][P] = @ + 1] ELSE oks
    /\ UNCHANGED <<now, cbcfg, cfg, posts, ledger, limiter, raised, snap, nsyn>>
    /\ UNCHANGED cbvars
    /\ UNCHANGED compvars
    /\ UNCHANGED logvars
    /\ UNCHANGED rss

\* one invocation of the collaborator, inside retry when retry is configured
\* (retry.py lines 62-70)
Attempt(res) ==
    /\ pc = "attempt"
    /\ calls' = [calls EXCEPT ![P][res] = @ + 1]
    /\ IF res = "retryable" /\ cfg.retry
       THEN IF LastAttempt(cur.attempt, cfg.max_attempts)
            THEN ChainDone("RetryError")
            ELSE /\ pc' = "backoff"
                 /\ trace' = Append(trace, "invoke")
                 /\ UNCHANGED <<breakers, cur>>
       ELSE ChainDone(res)
    /\ oks' = IF res = "ok" THEN [oks EXCEPT ![cur.post_id][P] = @ + 1] ELSE oks
    /\ UNCHANGED <<now, cbcfg, cfg, posts, ledger, limiter, raised, snap, nsyn>>
    /\ UNCHANGED cbvars
    /\ UNCHANGED compvars
    /\ UNCHANGED logvars
    /\ UNCHANGED rss

\* retry.py lines 72-75: the backoff sleep, then the next attempt
Backoff ==
    /\ pc = "backoff"
    /\ now + Delay(cur.attempt) <= MaxTime
    /\ now' = now + Delay(cur.attempt)
    /\ cur' = [cur EXCEPT !.attempt = @ + 1]
    /\ trace' = Append(trace, "sleep")
    /\ pc' = RetryTarget
    /\ UNCHANGED <<cbcfg, cfg, posts, ledger, breakers, limiter, calls, raised, snap, nsyn, oks>>
    /\ UNCHANGED cbvars
    /\ UNCHANGED compvars
    /\ UNCHANGED logvars
    /\ UNCHANGED rss

\* _log_delivery (line 311) when DeliveryLog.append returns, or no log is configured
LogDelivery ==
    /\ pc = "log"
    /\ ledger' = IF cfg.ledger = "none" THEN ledger
                 ELSE Append(ledger, DeliveryRecordOf(cur.post_id, cur.records[Len(cur.records)]))
    /\ cur' = [cur EXCEPT !.idx = @ + 1, !.out = "none"]
    /\ pc' = "loop"
    /\ UNCHANGED <<now, cbcfg, cfg, posts, breakers, limiter, calls, trace, raised, snap, nsyn, oks>>
    /\ UNCHANGED cbvars
    /\ UNCHANGED compvars
    /\ UNCHANGED logvars
    /\ UNCHANGED rss

\* _log_delivery when DeliveryLog._save raises (the temporary file cannot be
\* written or moved): the record is in memory and the error leaves syndicate
LogDeliveryFails ==
    /\ pc = "log"
    /\ cfg.ledger = "file"
    /\ ledger' = Append(ledger, DeliveryRecordOf(cur.post_id, cur.records[Len(cur.records)]))
    /\ raised' = "OSError"
    /\ pc' = "idle"
    /\ cur' = NoCall
    /\ calls' = NoCalls
    /\ trace' = <<>>
    /\ snap' = 0
    /\ UNCHANGED <<now, cbcfg, cfg, posts, breakers, limiter, nsyn, oks>>
    /\ UNCHANGED cbvars
    /\ UNCHANGED compvars
    /\ UNCHANGED logvars
    /\ UNCHANGED rss

\* the loop of syndicate has handled every target platform
LoopDone == pc = "loop" /\ cur.idx > Len(cur.platforms)

\* syndicate, lines 313-314; the locals of the call are gone afterwards
SyndicateReturn ==
    /\ LoopDone
    /\ posts' = [posts EXCEPT ![cur.post_id].syndications = cur.records]
    /\ pc' = "idle"
    /\ cur' = NoCall
    /\ calls' = NoCalls
    /\ trace' = <<>>
    /\ snap' = 0
    /\ UNCHANGED <<now, cbcfg, cfg, ledger, breakers, limiter, raised, nsyn, oks>>
    /\ UNCHANGED cbvars
    /\ UNCHANGED compvars
    /\ UNCHANGED logvars
    /\ UNCHANGED rss

\* time passes between two calls on the distributor
Tick ==
    /\ pc = "idle"
    /\ now < MaxTime
    /\ now' = now + 1
    /\ UNCHANGED <<cbcfg, cfg, posts, ledger, breakers, limiter, pc, cur, calls,
                   trace, raised, snap, nsyn, oks>>
    /\ UNCHANGED cbvars
    /\ UNCHANGED compvars
    /\ UNCHANGED logvars
    /\ UNCHANGED rss

Next ==
    \/ \E c \in PostIds, plats \in TargetLists : CreatePost(c, plats)
    \/ \E c \in PostIds : SyndicateBegin(c)
    \/ DedupSkip
    \/ NoClientSkip
    \/ DispatchStart
    \/ Acquire
    \/ AcquireWait
    \/ BreakerEnter
    \/ \E res \in Results : Attempt(res)
    \/ Backoff
    \/ LogDelivery
    \/ LogDeliveryFails
    \/ SyndicateReturn
    \/ Tick

Spec == Init /\ [][Next]_vars

----------------------------------------------------------------------------
(* Properties of the distributor *)

\* a syndicate call is running
Running == pc # "idle"

\* the ledger held a success record for (the post being syndicated, p) when
\* the running syndicate call started
DeliveredBefore(p) ==
    \E i \in 1..snap :
        /\ ledger[i].post_id = cur.post_id
        /\ ledger[i].platform = p
        /\ ledger[i].status = "success"

Invocations(p) == calls[p]["ok"] + calls[p]["retryable"] + calls[p]["fatal"]

\* C1: with a ledger configured, a platform for which the ledger held a
\* success record of this content id when syndicate started gets the outcome
\* 'skipped' (dedup), its collaborator is not invoked during the call, and the
\* call appends no ledger record for it.
C1_DedupSkips ==
    \A p \in Platforms :
        (Running /\ cfg.ledger # "none" /\ DeliveredBefore(p)) =>
            /\ Invocations(p) = 0
            /\ \A j \in 1..Len(cur.records) :
                  cur.platforms[j] = p =>
                      cur.records[j] = Outcome(p, "skipped", "", "Already delivered (dedup)")
            /\ \A i \in (snap + 1)..Len(ledger) : ledger[i].platform # p

C1_Witness ==
    /\ LoopDone
    /\ \E j \in 1..Len(cur.platforms) :
          /\ DeliveredBefore(cur.platforms[j])
          /\ cur.records[j].status = "skipped"
    /\ \E q \in Platforms : Invocations(q) > 0

\* C2: no error of one platform's dispatch escapes syndicate: the call never
\* raises.
C2_NeverRaises == raised = "none"

\* C3: an item with targets [A, B], max_attempts = 3, neither target
\* deduplicated nor rejected by its breaker, A's collaborator returning and
\* B's collaborator raising a retryable error at every invocation: the
\* outcomes are [published(A), failed(B)], A was invoked once and B 3 times.
C3_EndToEnd ==
    \A A, B \in ClientPlatforms :
        ( /\ LoopDone
          /\ A # B
          /\ cur.platforms = <<A, B>>
          /\ cfg.retry /\ cfg.max_attempts = 3
          /\ ~DeliveredBefore(A) /\ ~DeliveredBefore(B)
          /\ \A j \in 1..2 : cur.records[j].error # "CircuitOpenError"
          /\ calls[A]["retryable"] = 0 /\ calls[A]["fatal"] = 0
          /\ calls[B]["ok"] = 0 /\ calls[B]["fatal"] = 0 )
        =>
        /\ Len(cur.records) = 2
        /\ cur.records[1].platform = A /\ cur.records[1].status = "published"
        /\ cur.records[2].platform = B /\ cur.records[2].status = "failed"
        /\ Invocations(A) = 1
        /\ Invocations(B) = 3

C3_Witness ==
    /\ LoopDone
    /\ cur.platforms = <<"mastodon", "discord">>
    /\ cfg.max_attempts = 3
    /\ calls["mastodon"]["ok"] = 1
    /\ calls["discord"]["retryable"] = 3
    /\ cur.records[2].error = "RetryError"

Events(e) == {i \in 1..Len(trace) : trace[i] = e}

\* the running dispatch consulted the platform's breaker, which was OPEN with
\* the reset timeout not elapsed
FoundOpen ==
    /\ pc \in {"attempt", "backoff", "log"}
    /\ Events("breaker") # {}
    /\ cur.pre.state = "open"
    /\ cur.at - cur.pre.last_failure_time < cbcfg.reset_timeout

\* C4: a dispatch with retry configured that finds the platform's breaker
\* OPEN before the reset timeout ends at once with CircuitOpenError: no
\* collaborator invocation, no backoff sleep, the breaker as it was.
C4_OpenNotRetried ==
    (cfg.retry /\ FoundOpen) =>
        /\ pc = "log"
        /\ cur.records[Len(cur.records)] = Outcome(P, "failed", "", "CircuitOpenError")
        /\ Events("invoke") = {}
        /\ Events("sleep") = {}
        /\ breakers[P] = cur.pre

C4_Witness ==
    /\ cfg.retry
    /\ FoundOpen
    /\ pc = "log"
    /\ Invocations(P) = 0

\* C5: in a dispatch that reaches the resilience chain the limiter's acquire
\* comes first and happens once, the breaker is consulted once, after the
\* acquire and before every collaborator invocation and backoff sleep, and
\* the chain returns once, after the last attempt.
C5_LayerOrder ==
    /\ (cfg.limiter /\ pc \in {"wait", "breaker", "attempt", "backoff"}) =>
            Events("acquire") = {1}
    /\ Events("acquire") \subseteq {1}
    /\ Cardinality(Events("breaker")) <= 1
    /\ (cfg.limiter /\ Events("breaker") # {}) => Events("breaker") = {2}
    /\ (pc \in {"attempt", "backoff"} /\ P \in cfg.breakers) => Events("breaker") # {}
    /\ \A i \in Events("invoke") \cup Events("sleep") :
          /\ cfg.limiter => Events("acquire") = {1}
          /\ \A b \in Events("breaker") : b < i
    /\ Events("return") \subseteq {Len(trace)}

C5_Witness ==
    /\ cfg.limiter
    /\ trace = <<"acquire", "breaker", "invoke", "sleep", "invoke", "return">>

\* the outcome statuses a finished dispatch can have
TerminalStatuses == {"published", "failed", "skipped"}

\* C27: when syndicate has handled the targets of a registered item, the
\* list it returns and stores on the item has one outcome per entry of the
\* target list, in the same order, each with a terminal status.
C27_OneOutcomePerTarget ==
    /\ LoopDone =>
          /\ Len(cur.records) = Len(cur.platforms)
          /\ \A j \in 1..Len(cur.platforms) :
                /\ cur.records[j].platform = cur.platforms[j]
                /\ cur.records[j].status \in TerminalStatuses
    /\ \A c \in DOMAIN posts :
          \/ posts[c].syndications = <<>>
          \/ /\ Len(posts[c].syndications) = Len(posts[c].platforms)
             /\ \A j \in 1..Len(posts[c].platforms) :
                   /\ posts[c].syndications[j].platform = posts[c].platforms[j]
                   /\ posts[c].syndications[j].status \in TerminalStatuses

\* a call with two targets, the first skipped as delivered before and the
\* second failed
C27_Witness ==
    /\ LoopDone
    /\ Len(cur.platforms) = 2
    /\ cur.records[1].error = "Already delivered (dedup)"
    /\ cur.records[2].status = "failed"

\* C28: a target platform without a configured client, not deduplicated,
\* gets the outcome 'skipped' with the error 'No client configured for
\* <platform>', in a step that invokes no collaborator and leaves the rate
\* limiter and every breaker as they were; a platform without a client is
\* never invoked.
C28_NoClientSkipped ==
    /\ [](\A p \in Platforms \ cfg.clients : Invocations(p) = 0)
    /\ [][(InLoop /\ ~Deduped /\ P \notin cfg.clients) =>
            /\ cur'.records = Append(cur.records,
                                     [platform |-> P, status |-> "skipped",
                                      external_url |-> "", published_at |-> "None",
                                      error |-> NoClientMessage(P)])
            /\ limiter' = limiter
            /\ breakers' = breakers
            /\ calls' = calls
            /\ trace' = <<>>
            /\ pc' = "log"]_vars

\* mastodon is a target, has a breaker registered and no client, and was
\* skipped
C28_Witness ==
    /\ pc = "log"
    /\ cur.out = "no client"
    /\ P = "mastodon"
    /\ P \in cfg.breakers
    /\ cur.records[Len(cur.records)].status = "skipped"

\* the outcomes of the running call that are not dedup skips
NotDeduped == SelectSeq(cur.records, LAMBDA r : r.error # "Already delivered (dedup)")

\* C29 as stated: the ledger grows only by the outcomes that are published
\* or failed.
C29_SkipsNotLogged ==
    (LoopDone /\ cfg.ledger # "none") =>
        Len(ledger) - snap =
            Len(SelectSeq(cur.records, LAMBDA r : r.status \in {"published", "failed"}))

\* C29: a dedup skip appends no ledger record; with a delivery log
\* configured every other outcome, a no-client skip included, appends one
\* record for its platform, in order, which for a skipped outcome has status
\* 'failure' and the outcome's error.
C29_OnlyDedupSkipsNotLogged ==
    (LoopDone /\ cfg.ledger # "none") =>
        /\ Len(ledger) - snap = Len(NotDeduped)
        /\ \A i \in 1..Len(NotDeduped) :
              /\ ledger[snap + i].post_id = cur.post_id
              /\ ledger[snap + i].platform = NotDeduped[i].platform
              /\ NotDeduped[i].status = "skipped" =>
                    /\ ledger[snap + i].status = "failure"
                    /\ ledger[snap + i].error = NotDeduped[i].error

\* a call with a dedup skip and a no-client skip, which appended one record
C29_Witness ==
    /\ LoopDone
    /\ cfg.ledger # "none"
    /\ Len(cur.records) = 2
    /\ cur.records[1].error = "Already delivered (dedup)"
    /\ cur.records[2].status = "skipped"
    /\ cur.records[2].error = NoClientMessage("rss")
    /\ Len(ledger) = snap + 1

\* C30: a dispatch through the resilience chain is marked published, with a
\* non-empty external URL and a completion time, exactly when the chain
\* returned, and failed with the error as message exactly when an error
\* escaped the chain; with a delivery log configured it appends one record
\* for (content id, platform), 'success' exactly when published.
C30_DispatchOutcome ==
    /\ (pc = "log" /\ cur.out \notin {"none", "no client"}) =>
          LET r == cur.records[Len(cur.records)] IN
          /\ r.platform = P
          /\ (cur.out = "ok") <=> (r.status = "published")
          /\ (cur.out # "ok") <=> (r.status = "failed")
          /\ cur.out = "ok" => calls[P]["ok"] >= 1
          /\ cur.out = "CircuitOpenError" => Events("invoke") = {}
          /\ cur.out = "RetryError" => cfg.retry
          /\ r.status = "published" =>
                /\ r.external_url # ""
                /\ r.published_at # "None"
                /\ r.error = ""
          /\ r.status = "failed" =>
                /\ r.error = cur.out
                /\ r.error # ""
    /\ (pc = "loop" /\ cur.idx > 1 /\ cfg.ledger # "none"
          /\ cur.records[Len(cur.records)].status \in {"published", "failed"}) =>
          LET r == cur.records[Len(cur.records)] IN
          /\ Len(ledger) > snap
          /\ ledger[Len(ledger)].post_id = cur.post_id
          /\ ledger[Len(ledger)].platform = r.platform
          /\ ledger[Len(ledger)].record_id = <<cur.post_id, r.platform>>
          /\ (ledger[Len(ledger)].status = "success") <=> (r.status = "published")
          /\ (ledger[Len(ledger)].status = "failure") <=> (r.status = "failed")
          /\ Len(ledger) - snap =
                Len(SelectSeq(cur.records, LAMBDA x : x.error # "Already delivered (dedup)"))

\* the chain returned for discord, whose collaborator returns no URL, with a
\* delivery log configured
C30_Witness ==
    /\ pc = "log"
    /\ cur.out = "ok"
    /\ P = "discord"
    /\ cfg.ledger # "none"
    /\ cfg.retry
    /\ calls["discord"]["retryable"] >= 1
    /\ cur.records[Len(cur.records)].external_url = "https://discord.example.com/c1"

(***************************************************************************)
(* rss_poller.py: RssPoller.  SpecPoll has up to two poller objects; with  *)
(* a seen-file both are constructed over the same file, each at any time,  *)
(* and without one there is the single object p1.  The feed a poll fetches *)
(* is an input of the poll: the sequence of the entry ids parse_feed finds *)
(* in the document, in document order, a repeated id included.  _save_seen *)
(* writes the .tmp sibling and renames it within the same call without     *)
(* anything running in between, so the seen-file changes in one step.      *)
(* rss.known and rss.hist are history: the ids that polls have returned or *)
(* mark_seen has been given so far, and the last call with the value of    *)
(* known before it and the feed of the poll before it.                     *)
(***************************************************************************)
EntryIds == {"e1", "e2"}
MaxFeedLen == 2
MaxSeenLimit == 1
Pollers == {"p1", "p2"}

Feeds == UNION {[1..n -> EntryIds] : n \in 0..MaxFeedLen}

\* json.dumps({"seen_ids": self._seen_order})
DumpsSeen(seen_order) ==
    Text(JObj([seen_ids |-> JArr([i \in 1..Len(seen_order) |-> JStr(seen_order[i])])]),
         "complete")

\* _load_seen: a text that is not JSON, or a seen_ids that is no list, gives
\* the empty set; a document that is no object has no get (AttributeError)
LoadSeen(file) ==
    LET doc == file.doc IN
    IF file.part = "absent" THEN [seen_order |-> <<>>, error |-> "none"]
    ELSE IF file.part # "complete" THEN [seen_order |-> <<>>, error |-> "none"]
    ELSE IF doc.t # "obj" THEN [seen_order |-> <<>>, error |-> "AttributeError"]
    ELSE IF "seen_ids" \notin DOMAIN doc.v THEN [seen_order |-> <<>>, error |-> "none"]
    ELSE LET v == doc.v.seen_ids IN
         IF v.t = "arr"
         THEN [seen_order |-> [i \in 1..Len(v.v) |-> v.v[i].v], error |-> "none"]
         ELSE [seen_order |-> <<>>, error |-> "none"]

Range(s) == {s[i] : i \in 1..Len(s)}

\* self._seen_order[-self._max_seen:]
MostRecent(seen_order, n) == SubSeq(seen_order, Len(seen_order) - n + 1, Len(seen_order))

\* the pruning step of _save_seen
Prune(pl) ==
    IF pl.max_seen > 0 /\ Len(pl.seen_order) > pl.max_seen
    THEN [pl EXCEPT !.seen_order = MostRecent(pl.seen_order, pl.max_seen),
                    !.seen = Range(MostRecent(pl.seen_order, pl.max_seen))]
    ELSE pl

\* _save_seen: the poller and the seen-file afterwards
SaveSeen(pl, file) ==
    IF ~pl.seen_path THEN [poller |-> pl, file |-> file]
    ELSE [poller |-> Prune(pl), file |-> DumpsSeen(Prune(pl).seen_order)]

\* [e for e in all_entries if e.entry_id not in self._seen]
NewEntries(feed, seen) == SelectSeq(feed, LAMBDA e : e \notin seen)

InitialSeenFiles ==
    {Absent, EmptyText, Text(JArr(<<>>), "complete"),
     Text(JObj([seen_ids |-> JNull]), "complete")}
    \cup {DumpsSeen(<<e>>) : e \in EntryIds}

NoPoller == [built |-> "none", seen_path |-> FALSE, seen |-> {}, seen_order |-> <<>>,
             max_seen |-> 0]
NoPoll == [op |-> "none", by |-> "none", feed |-> <<>>, result |-> <<>>,
           known |-> {}, prev |-> <<>>]

InitPoll ==
    /\ IdleBreaker
    /\ IdlePosse
    /\ IdleComp
    /\ IdleLog
    /\ \E shared \in BOOLEAN, f \in InitialSeenFiles :
          rss = [shared |-> shared,
                 file |-> IF shared THEN f ELSE Absent,
                 pollers |-> [p \in Pollers |-> NoPoller],
                 known |-> IF shared /\ LoadSeen(f).error = "none"
                           THEN Range(LoadSeen(f).seen_order) ELSE {},
                 hist |-> NoPoll]

PollFrame ==
    /\ UNCHANGED <<now, cbcfg>>
    /\ UNCHANGED cbvars
    /\ UNCHANGED possevars
    /\ UNCHANGED compvars
    /\ UNCHANGED logvars

\* RssPoller(feed_url, seen_path, fetch_func, max_seen)
PollerInit(p, max_seen) ==
    /\ rss # <<>>
    /\ rss.pollers[p].built = "none"
    /\ rss.shared \/ p = "p1"
    /\ LET loaded == IF rss.shared /\ rss.file.part # "absent"
                     THEN LoadSeen(rss.file)
                     ELSE [seen_order |-> <<>>, error |-> "none"] IN
       rss' = [rss EXCEPT
                 !.pollers[p] = IF loaded.error # "none"
                                THEN [NoPoller EXCEPT !.built = loaded.error]
                                ELSE [built |-> "ok", seen_path |-> rss.shared,
                                      seen |-> Range(loaded.seen_order),
                                      seen_order |-> loaded.seen_order,
                                      max_seen |-> max_seen],
                 !.hist = [NoPoll EXCEPT !.op = "init", !.by = p,
                                         !.known = rss.known, !.prev = rss.hist.prev]]
    /\ PollFrame

\* poll(), the fetched document holding the entries feed
Poll(p, feed) ==
    /\ rss # <<>>
    /\ rss.pollers[p].built = "ok"
    /\ LET pl == rss.pollers[p]
           new_entries == NewEntries(feed, pl.seen)
           added == [pl EXCEPT !.seen = @ \cup Range(new_entries),
                               !.seen_order = @ \o new_entries]
           saved == SaveSeen(added, rss.file) IN
       rss' = [rss EXCEPT
                 !.pollers[p] = saved.poller,
                 !.file = saved.file,
                 !.known = @ \cup Range(new_entries),
                 !.hist = [op |-> "poll", by |-> p, feed |-> feed,
                           result |-> new_entries, known |-> rss.known,
                           prev |-> IF rss.hist.op = "poll" THEN <<rss.hist.feed>>
                                    ELSE <<>>]]
    /\ PollFrame

\* mark_seen(entry_id)
MarkSeen(p, entry_id) ==
    /\ rss # <<>>
    /\ rss.pollers[p].built = "ok"
    /\ LET pl == rss.pollers[p]
           added == IF entry_id \notin pl.seen
                    THEN [pl EXCEPT !.seen = @ \cup {entry_id},
                                    !.seen_order = Append(@, entry_id)]
                    ELSE pl
           saved == SaveSeen(added, rss.file) IN
       rss' = [rss EXCEPT
                 !.pollers[p] = saved.poller,
                 !.file = saved.file,
                 !.known = @ \cup {entry_id},
                 !.hist = [NoPoll EXCEPT !.op = "mark_seen", !.by = p,
                                         !.known = rss.known]]
    /\ PollFrame

NextPoll ==
    \/ \E p \in Pollers, m \in 0..MaxSeenLimit : PollerInit(p, m)
    \/ \E p \in Pollers, f \in Feeds : Poll(p, f)
    \/ \E p \in Pollers, e \in EntryIds : MarkSeen(p, e)

SpecPoll == InitPoll /\ [][NextPoll]_vars

\* C32: across any sequence of poll and mark_seen calls, and across poller
\* instances sharing one seen-file, poll returns only entries whose id was
\* neither returned by an earlier poll nor passed to mark_seen, and polling an
\* unchanged feed a second time returns no entries.
C32_PollReturnsOnlyUnseen ==
    (rss # <<>> /\ rss.hist.op = "poll") =>
        /\ \A i \in 1..Len(rss.hist.result) :
              rss.hist.result[i] \notin rss.hist.known
        /\ rss.hist.prev = <<rss.hist.feed>> => rss.hist.result = <<>>

\* ContentPost.get_syndication(platform): the first outcome of the platform,
\* <<>> for None
GetSyndication(post, p) ==
    LET at == {i \in 1..Len(post.syndications) : post.syndications[i].platform = p} IN
    IF at = {} THEN <<>>
    ELSE <<post.syndications[CHOOSE i \in at : \A j \in at : i <= j]>>

IsPrefix(s, t) == Len(s) <= Len(t) /\ SubSeq(t, 1, Len(s)) = s

\* C31: syndicate changes a post only by appending outcomes to its list: the
\* outcomes stored by earlier syndicate calls are still in the list afterwards,
\* and a platform stored as published is still retrievable as published, with
\* the same external URL, after a later syndicate of the post.
C31_OutcomesOnlyAppended ==
    [][(pc # "idle" /\ posts' # posts) =>
          LET before == posts[cur.post_id]
              after == posts'[cur.post_id] IN
          /\ IsPrefix(before.syndications, after.syndications)
          /\ \A p \in Platforms :
                (/\ GetSyndication(before, p) # <<>>
                 /\ GetSyndication(before, p)[1].status = "published")
                => GetSyndication(after, p) = GetSyndication(before, p)]_vars

\* the ledger has records of (post_id, platform), all of them failures
OnlyFailures(post_id, platform) ==
    /\ \E i \in 1..Len(ledger) :
          ledger[i].post_id = post_id /\ ledger[i].platform = platform
    /\ \A i \in 1..Len(ledger) :
          (ledger[i].post_id = post_id /\ ledger[i].platform = platform)
          => ledger[i].status = "failure"

\* the collaborator was invoked in the current dispatch
Invoked_Dispatch == \E i \in 1..Len(trace) : trace[i] = "invoke"

\* what C33 says of the outcomes of the running call: a platform is skipped as
\* delivered only when the ledger has a success record of it, and a published
\* platform whose record was written has a success record
C33_Common ==
    /\ \A j \in 1..Len(cur.records) :
          cur.records[j] = Outcome(cur.platforms[j], "skipped", "", "Already delivered (dedup)")
          => HasBeenDelivered(ledger, cur.post_id, cur.platforms[j])
    /\ \A j \in 1..Len(cur.records) :
          (cfg.ledger # "none" /\ j < cur.idx /\ cur.records[j].status = "published")
          => HasBeenDelivered(ledger, cur.post_id, cur.platforms[j])

\* C33 as stated: a failure record never suppresses a later attempt: when
\* every ledger record of (c, p) is a failure, the next syndicate(c) invokes
\* the collaborator of p again; when that attempt succeeds a success record
\* is appended, and only from then on is p skipped.
C33_FailureInvokesAgain ==
    /\ (pc = "log" /\ OnlyFailures(cur.post_id, P)) => Invoked_Dispatch
    /\ C33_Common

\* C33, amended: when every ledger record of (c, p) is a failure, the next
\* syndicate(c) does not skip p as delivered but dispatches it again, which
\* invokes the collaborator of p unless p has no client or the circuit breaker
\* of p rejects the call; when the attempt succeeds a success record is
\* appended, and only from then on is p skipped.
C33_FailureDispatchesAgain ==
    /\ (pc = "log" /\ OnlyFailures(cur.post_id, P)) =>
          \/ Invoked_Dispatch
          \/ cur.out \in {"no client", "CircuitOpenError"}
    /\ C33_Common

C33_Witness ==
    /\ pc = "log"
    /\ OnlyFailures(cur.post_id, P)
    /\ Invoked_Dispatch
    /\ cur.out = "ok"
    /\ \E j \in 1..Len(cur.records) : cur.records[j].status = "skipped"

\* the positions of the success records of (post_id, platform) in the ledger
SuccessRecords(post_id, platform) ==
    {i \in 1..Len(ledger) : /\ ledger[i].post_id = post_id
                            /\ ledger[i].platform = platform
                            /\ ledger[i].status = "success"}

\* C34: on a distributor with a ledger, after any sequence of create_post and
\* syndicate calls the ledger holds at most one success record per content id
\* and platform, and the collaborator of the platform has returned
\* successfully at most once for the content id, a platform that the target
\* list names more than once included.
C34_AtMostOneDelivery ==
    cfg.ledger # "none" =>
        \A c \in PostIds, p \in Platforms :
            /\ Cardinality(SuccessRecords(c, p)) <= 1
            /\ oks[c][p] <= 1

C34_Witness ==
    /\ cfg.ledger # "none"
    /\ pc = "idle"
    /\ nsyn = MaxSyndicates
    /\ \E c \in DOMAIN posts, p \in Platforms :
          /\ posts[c].platforms = <<p, p>>
          /\ oks[c][p] = 1
          /\ Cardinality(SuccessRecords(c, p)) = 1
          /\ posts[c].syndications = <<Outcome(p, "skipped", "", "Already delivered (dedup)"),
                                       Outcome(p, "skipped", "", "Already delivered (dedup)")>>

\* C38: breakers are isolated per platform: a dispatch to one platform never
\* changes the state, failure counter, trial counter or failure time of the
\* breaker of another platform, and a dispatch is rejected with
\* CircuitOpenError only when the breaker of its own platform rejects, so an
\* OPEN breaker of A does not prevent the dispatch to B in the same syndicate
\* call.
C38_BreakersIsolated ==
    /\ [](pc = "log" /\ cur.out = "CircuitOpenError" =>
             /\ P \in cfg.breakers
             /\ Rejects(StateProp(cur.pre, cbcfg, cur.at), cbcfg))
    /\ [][\A q \in DOMAIN breakers :
             breakers'[q] # breakers[q] => (pc \in {"breaker", "attempt"} /\ q = P)]_vars

C38_Witness ==
    /\ LoopDone
    /\ Len(cur.records) = 2
    /\ cur.platforms[1] # cur.platforms[2]
    /\ cur.platforms[2] \in cfg.breakers
    /\ cur.records[1].error = "CircuitOpenError"
    /\ cur.records[2].status = "published"
    /\ breakers[cur.platforms[1]].state = "open"
    /\ breakers[cur.platforms[2]].state = "closed"

\* the collaborator invocations of the current dispatch
InvokesOfDispatch == Cardinality({i \in 1..Len(trace) : trace[i] = "invoke"})

\* C36: with retry and a breaker on a platform the breaker books one failure
\* per dispatch whose retries are exhausted, not one per attempt, and one
\* success for a dispatch that succeeds on a later attempt: against a
\* collaborator that always fails, with failure_threshold k and max_attempts n,
\* the breaker is OPEN after exactly k dispatches and k*n invocations, and one
\* HALF_OPEN trial invokes the collaborator up to n times.
C36_OneFailurePerDispatch ==
    /\ (pc = "log" /\ cfg.retry /\ P \in cfg.breakers /\ cur.out # "CircuitOpenError") =>
          LET b == StateProp(cur.pre, cbcfg, cur.at) IN
          /\ InvokesOfDispatch <= cfg.max_attempts
          /\ cur.out = "RetryError" =>
                /\ InvokesOfDispatch = cfg.max_attempts
                /\ breakers[P].failure_count = b.failure_count + 1
          /\ cur.out = "ok" =>
                /\ breakers[P].failure_count = 0
                /\ breakers[P].state = "closed"
    /\ \A p \in cfg.breakers :
          (/\ nsyn = 1
           /\ pc = "loop"
           /\ cfg.retry
           /\ calls[p]["ok"] = 0
           /\ calls[p]["fatal"] = 0)
          => (breakers[p].state = "open"
              <=> calls[p]["retryable"] >= cbcfg.failure_threshold * cfg.max_attempts)

\* the threshold is reached by the second exhausted dispatch, after 2 * n
\* invocations
C36_Witness ==
    /\ nsyn = 1
    /\ pc = "loop"
    /\ cfg.retry
    /\ cbcfg.failure_threshold = 2
    /\ \E p \in cfg.breakers :
          /\ calls[p]["retryable"] = 2 * cfg.max_attempts
          /\ calls[p]["ok"] = 0
          /\ calls[p]["fatal"] = 0
          /\ breakers[p].state = "open"
          /\ breakers[p].failure_count = 2

(***************************************************************************)
(* FairSpecCBConc: SpecCBConc with the scheduling the breaker's callers     *)
(* give it: the clock advances, every caller that is idle calls again and   *)
(* every call that has started goes on to its end.  The clock of the model  *)
(* stops at MaxTime; an OPEN breaker whose reset_timeout cannot elapse      *)
(* before that is waiting for the clock, not stuck.                         *)
(***************************************************************************)
FairCBConc ==
    /\ WF_vars(TickCBConc)
    /\ \A t \in Callers :
          /\ WF_vars(CallRead(t))
          /\ WF_vars(CallTest(t))
          /\ WF_vars(CallCount(t))
          /\ WF_vars(CallInvoke(t))
          /\ WF_vars(CallReturn(t, "ok") \/ CallReturn(t, "err"))

FairSpecCBConc == InitCBConc /\ [][NextCBConc]_vars /\ FairCBConc

WaitingForClock ==
    /\ now = MaxTime
    /\ cb.state = "open"
    /\ now - cb.last_failure_time < cbcfg.reset_timeout

\* C37: a breaker does not get stuck rejecting: when time keeps advancing,
\* calls keep arriving, overlapping ones included, and the operation succeeds
\* from some point on, the breaker is CLOSED again after a call was passed to
\* the operation, without reset().
C37_NeverStuckRejecting ==
    (<>[][\A t \in Callers : ~CallReturn(t, "err")]_vars)
    => []<>(cb.state = "closed" \/ WaitingForClock)

(***************************************************************************)
(* cli.py, cmd_dispatch: SpecCli has two runs of the dispatch command over *)
(* the default configuration's delivery_log.json, one after the other or   *)
(* overlapping.  Each run builds its own distributor and DeliveryLog       *)
(* (factory.py), creates the post "cli-dispatch" and syndicates it.        *)
(* build_distributor passes no limiter, breaker or retry configuration, so *)
(* a dispatch is one invocation of the collaborator.  dl holds the runs    *)
(* and fs the backing file; a _save is one step here, its steps being      *)
(* those of SpecLogConc.  invoked, oks and wrote are history: the          *)
(* platforms whose collaborator a run invoked, those that returned, and    *)
(* the success records the run appended; after is the set of runs that     *)
(* had ended when the run began.                                           *)
(***************************************************************************)
CliRuns == {"d1", "d2"}
CliPostId == "cli-dispatch"
CliTitles == {"t1", "t2"}
CliPlatforms == {"mastodon", "discord"}

\* the platforms the configuration has credentials for
CliClients == {"mastodon"}

\* --platforms: one or two distinct platforms
CliTargets ==
    {<<p>> : p \in CliPlatforms}
    \cup {<<x[1], x[2]>> : x \in {y \in CliPlatforms \X CliPlatforms : y[1] # y[2]}}

NoRun == [pc |-> "none", records |-> <<>>, title |-> "none", platforms |-> <<>>,
          idx |-> 0, outcomes |-> <<>>, invoked |-> {}, oks |-> {}, wrote |-> <<>>,
          after |-> {}]

InitCli ==
    /\ IdlePoller
    /\ IdleBreaker
    /\ IdlePosse
    /\ IdleComp
    /\ fs \in {[Files EXCEPT !.path = f] : f \in {Absent, Text(Dumps(<<>>), "complete")}}
    /\ dl = [d \in CliRuns |-> NoRun]

CliFrame ==
    /\ UNCHANGED cbcfg
    /\ UNCHANGED cbvars
    /\ UNCHANGED possevars
    /\ UNCHANGED compvars
    /\ UNCHANGED rss

\* the platform the loop of syndicate is at in run d
CliP(d) == dl[d].platforms[dl[d].idx]

CliInLoop(d) == dl[d].pc = "loop" /\ dl[d].idx <= Len(dl[d].platforms)

\* cmd_dispatch lines 24-26: build_distributor loads the log, create_post
\* stores the post under the fixed id
CliStart(d, title, platforms) ==
    /\ dl[d].pc = "none"
    /\ dl' = [dl EXCEPT ![d] =
                 [NoRun EXCEPT !.pc = "loop",
                               !.records = Load(fs.path, now).records,
                               !.title = title,
                               !.platforms = platforms,
                               !.idx = 1,
                               !.after = {e \in CliRuns : dl[e].pc = "done"}]]
    /\ UNCHANGED <<now, fs>>
    /\ CliFrame

\* syndicate lines 289-296: the dedup skip
CliDedupSkip(d) ==
    /\ CliInLoop(d)
    /\ HasBeenDelivered(dl[d].records, CliPostId, CliP(d))
    /\ dl' = [dl EXCEPT
                ![d].outcomes = Append(@, Outcome(CliP(d), "skipped", "",
                                                  "Already delivered (dedup)")),
                ![d].idx = @ + 1]
    /\ UNCHANGED <<now, fs>>
    /\ CliFrame

\* syndicate lines 298-310: the collaborator is invoked and returns or raises,
\* or the platform has no client
CliDispatch(d, res) ==
    /\ CliInLoop(d)
    /\ ~HasBeenDelivered(dl[d].records, CliPostId, CliP(d))
    /\ LET p == CliP(d) IN
       dl' = [dl EXCEPT
                ![d].outcomes =
                    Append(@, IF p \notin CliClients THEN NoClientOutcome(p)
                              ELSE IF res = "ok"
                              THEN Outcome(p, "published",
                                           ResultGet(ClientResult(p), "url",
                                                     FallbackUrl(p, CliPostId)), "")
                              ELSE Outcome(p, "failed", "", res)),
                ![d].invoked = IF p \in CliClients THEN @ \cup {p} ELSE @,
                ![d].oks = IF p \in CliClients /\ res = "ok" THEN @ \cup {p} ELSE @,
                ![d].pc = "log"]
    /\ UNCHANGED <<now, fs>>
    /\ CliFrame

\* the record _log_delivery appends for the last outcome of run d
CliRecord(d) ==
    LET o == dl[d].outcomes[Len(dl[d].outcomes)] IN
    DeliveryRecord([record_id |-> <<CliPostId, o.platform>>,
                    post_id |-> CliPostId,
                    platform |-> o.platform,
                    status |-> DeliveryRecordOf(CliPostId, o).status,
                    timestamp |-> <<>>], now)

\* syndicate line 311: _log_delivery, DeliveryLog.append and _save
CliLog(d) ==
    /\ dl[d].pc = "log"
    /\ dl' = [dl EXCEPT
                ![d].records = Append(@, CliRecord(d)),
                ![d].wrote = IF CliRecord(d).status = "success"
                             THEN Append(@, CliRecord(d)) ELSE @,
                ![d].idx = @ + 1,
                ![d].pc = "loop"]
    /\ fs' = [fs EXCEPT !.path = Text(Dumps(Append(dl[d].records, CliRecord(d))),
                                      "complete")]
    /\ UNCHANGED now
    /\ CliFrame

\* syndicate lines 313-314 and the end of cmd_dispatch
CliReturn(d) ==
    /\ dl[d].pc = "loop"
    /\ dl[d].idx > Len(dl[d].platforms)
    /\ dl' = [dl EXCEPT ![d].pc = "done"]
    /\ UNCHANGED <<now, fs>>
    /\ CliFrame

TickCli ==
    /\ now < MaxLogTime
    /\ now' = now + 1
    /\ UNCHANGED <<dl, fs>>
    /\ CliFrame

NextCli ==
    \/ \E d \in CliRuns, title \in CliTitles, platforms \in CliTargets :
          CliStart(d, title, platforms)
    \/ \E d \in CliRuns : CliDedupSkip(d)
    \/ \E d \in CliRuns, res \in {"ok", "fatal"} : CliDispatch(d, res)
    \/ \E d \in CliRuns : CliLog(d)
    \/ \E d \in CliRuns : CliReturn(d)
    \/ TickCli

SpecCli == InitCli /\ [][NextCli]_vars

\* the records the backing file holds
CliFileRecords == Load(fs.path, now).records

\* C35: two distributors, each with its own ledger object over the same
\* backing file, that syndicate the same content id to the same platform,
\* overlapping or one after the other with both ledgers built before the first
\* delivery, never both get a successful return of the platform's
\* collaborator, and the success record the first wrote is in the backing file
\* after the second has finished.
C35_OneDeliveryAcrossLedgers ==
    /\ \A p \in CliPlatforms : ~(p \in dl["d1"].oks /\ p \in dl["d2"].oks)
    /\ (\A d \in CliRuns : dl[d].pc = "done") =>
          \A d \in CliRuns : \A i \in 1..Len(dl[d].wrote) :
              \E j \in 1..Len(CliFileRecords) : CliFileRecords[j] = dl[d].wrote[i]

\* run d and every other run that has begun came one after the other, with
\* different titles
CliSuccessive(d) ==
    \A e \in CliRuns \ {d} :
        \/ dl[e].pc = "none"
        \/ /\ dl[e].title # dl[d].title
           /\ e \in dl[d].after \/ d \in dl[e].after

\* C39: successive runs of the dispatch command with different titles are
\* independent: each invokes the collaborator of every requested platform
\* that has a client, whatever earlier runs delivered and recorded in the
\* default delivery log.
C39_RunsIndependent ==
    \A d \in CliRuns :
        (dl[d].pc = "done" /\ CliSuccessive(d)) =>
            \A i \in 1..Len(dl[d].platforms) :
                dl[d].platforms[i] \in CliClients => dl[d].platforms[i] \in dl[d].invoked

====
